---------------------------- MODULE Spec2Model ----------------------------
(***************************************************************************)
(* oci-frugal: tag-driven power scheduler for OCI resources.               *)
(*                                                                         *)
(* The module models                                                       *)
(*   - the action algebra (package action),                                *)
(*   - the AnykeyNL schedule evaluator (package scheduler),                *)
(*   - the region controller: search, bounded queue, workers               *)
(*     (TagController.Run / TagController.worker),                         *)
(*   - the resource handler with its token pool (ResourceHandler),         *)
(*   - the orchestrator (main.run).                                        *)
(*                                                                         *)
(* Strings are sequences of one-character strings, so that splitting,      *)
(* trimming and integer parsing are computed and not assumed.              *)
(***************************************************************************)
EXTENDS Integers, Sequences, FiniteSets, TLC

(***************************************************************************)
(* Action algebra                                                          *)
(***************************************************************************)
NULL_ACTION == 0

OFF == 1

ON == 2

ALL == 255

\* Bitwise AND of two naturals (Go's & on uint8 operands).
RECURSIVE BitAnd(_, _)
BitAnd(a, b) ==
    IF a = 0 \/ b = 0 THEN 0
    ELSE (a % 2) * (b % 2) + 2 * BitAnd(a \div 2, b \div 2)

\* A plausible slip: "compatible" taken as "both set", losing the bit test.
CompareAnyNonNull(a, b) == a + b > 0

CompareIgnoreAllowed(a, b) == b > 0

\* Another slip: "a allows b" taken as "every bit of b is in a".
CompareContains(a, b) == b > 0 /\ BitAnd(a, b) = b

\* action.Compare: (a & b) > 0
Compare(a, b) == BitAnd(a, b) > 0

\* action.ToAction: Action(i), a conversion of int to uint8
ToAction(i) == i % 256

(***************************************************************************)
(* Strings                                                                 *)
(***************************************************************************)
Digits == {"0", "1", "2", "3", "4", "5", "6", "7", "8", "9"}

DigitVal(c) ==
    CASE c = "0" -> 0 [] c = "1" -> 1 [] c = "2" -> 2 [] c = "3" -> 3
      [] c = "4" -> 4 [] c = "5" -> 5 [] c = "6" -> 6 [] c = "7" -> 7
      [] c = "8" -> 8 [] c = "9" -> 9

IsSpace(c) == c \in {" ", "\t"}

\* strings.Index(s, c) for a one-character c; 0 when absent (Go: -1)
IndexFrom(s, c, i) ==
    LET hits == {j \in i..Len(s) : s[j] = c} IN
    IF hits = {} THEN 0
    ELSE CHOOSE j \in hits : \A k \in hits : j <= k

Index(s, c) == IndexFrom(s, c, 1)

RECURSIVE TrimLeft(_)
TrimLeft(s) ==
    IF s # <<>> /\ IsSpace(Head(s)) THEN TrimLeft(Tail(s)) ELSE s

RECURSIVE TrimRight(_)
TrimRight(s) ==
    IF s # <<>> /\ IsSpace(s[Len(s)]) THEN TrimRight(SubSeq(s, 1, Len(s) - 1))
    ELSE s

\* strings.TrimSpace
TrimSpace(s) == TrimRight(TrimLeft(s))

\* strings.Split(s, sep) for a one-character sep: n separators give n+1 fields,
\* and the empty string gives one empty field.
RECURSIVE Split(_, _)
Split(s, sep) ==
    LET i == Index(s, sep) IN
    IF i = 0 THEN <<s>>
    ELSE <<SubSeq(s, 1, i - 1)>> \o Split(SubSeq(s, i + 1, Len(s)), sep)

\* strings.SplitN(s, sep, 2)
SplitN2(s, sep) ==
    LET i == Index(s, sep) IN
    IF i = 0 THEN <<s>>
    ELSE <<SubSeq(s, 1, i - 1), SubSeq(s, i + 1, Len(s))>>

\* strings.Join(parts, sep)
RECURSIVE Join(_, _)
Join(parts, sep) ==
    IF parts = <<>> THEN <<>>
    ELSE IF Len(parts) = 1 THEN parts[1]
    ELSE parts[1] \o sep \o Join(Tail(parts), sep)

HasPrefix(s, c) == s # <<>> /\ s[1] = c

\* A plausible slip: the closing character is not looked at.
HasSuffixUnchecked(s, c) == s # <<>>

HasSuffix(s, c) == s # <<>> /\ s[Len(s)] = c

RECURSIVE DigitsValue(_, _)
DigitsValue(s, acc) ==
    IF s = <<>> THEN acc ELSE DigitsValue(Tail(s), 10 * acc + DigitVal(Head(s)))

\* strconv.Atoi: an optional sign and decimal digits; more than 18 digits are
\* rejected here as out of range (int64 holds every 18-digit number).
Atoi(s) ==
    LET neg  == s # <<>> /\ s[1] = "-"
        sgn  == s # <<>> /\ s[1] \in {"-", "+"}
        body == IF sgn THEN Tail(s) ELSE s
        ok   == /\ body # <<>>
                /\ Len(body) <= 18
                /\ \A i \in 1..Len(body) : body[i] \in Digits
    IN  IF ok
        THEN [ok |-> TRUE,
              val |-> IF neg THEN 0 - DigitsValue(body, 0) ELSE DigitsValue(body, 0)]
        ELSE [ok |-> FALSE, val |-> 0]

(***************************************************************************)
(* Schedule evaluator (AnykeyNLScheduler)                                  *)
(***************************************************************************)
WEEKDAYS == {"Monday", "Tuesday", "Wednesday", "Thursday", "Friday"}

WEEKENDS == {"Saturday", "Sunday"}

ANYDAY == "AnyDay"

WEEKDAY == "WeekDay"

WEEKEND == "Weekend"

DAYOFMO == "DayOfMonth"

\* Error values of package scheduler; NoErr is Go's nil error.
NoErr == [kind |-> "nil"]

ErrInvalidInput == [kind |-> "InvalidInput"]

\* A plausible slip: the two counts in each other's field.
ErrInvalidTokenCountSwapped(expected, got) ==
    [kind |-> "InvalidTokenCount", expected |-> got, got |-> expected]

ErrInvalidTokenCount(expected, got) ==
    [kind |-> "InvalidTokenCount", expected |-> expected, got |-> got]

ErrInvalidToken(tok) == [kind |-> "InvalidToken", token |-> tok]

ErrUnsupportedToken(tok) == [kind |-> "UnsupportedToken", token |-> tok]

\* Values handed to the evaluator as `any`.
StringInput(s) == [type |-> "string", s |-> s]

StringMapInput(m) == [type |-> "map[string]string", m |-> m]

AnyMapInput(m) == [type |-> "map[string]interface{}", m |-> m]

OtherInput == [type |-> "int"]

\* A nil value inside a map[string]interface{}
NilValue == <<"<nil interface>">>

EmptyMap == [k \in {} |-> <<>>]

\* nthInMonth: ((t.Day() - 1) / 7) + 1
nthInMonth(day) == ((day - 1) \div 7) + 1

\* NewAnykeyNLSchedulerWithLocation: the fields captured from time.Now().In(loc)
NewAnykeyNLSchedulerWithLocation(now) ==
    [hour |-> now.hour, dow |-> now.dow, dom |-> now.dom, dnr |-> nthInMonth(now.dom)]

\* A plausible slip: nil values are not dropped but formatted like the rest
\* (fmt.Sprint(nil) is "<nil>").
toStringMapKeepNil(tags) ==
    CASE tags.type = "map[string]string" -> [m |-> tags.m, err |-> NoErr]
      [] tags.type = "map[string]interface{}" ->
            [m |-> [k \in DOMAIN tags.m |->
                        IF tags.m[k] = NilValue THEN <<"<", "n", "i", "l", ">">>
                        ELSE TrimSpace(tags.m[k])],
             err |-> NoErr]
      [] OTHER -> [m |-> EmptyMap, err |-> ErrInvalidInput]

\* toStringMap: map[string]string as is; map[string]interface{} with nil values
\* dropped and the others trimmed; anything else is ErrInvalidInput.
toStringMap(tags) ==
    CASE tags.type = "map[string]string" -> [m |-> tags.m, err |-> NoErr]
      [] tags.type = "map[string]interface{}" ->
            [m |-> [k \in {x \in DOMAIN tags.m : tags.m[x] # NilValue} |->
                        TrimSpace(tags.m[k])],
             err |-> NoErr]
      [] OTHER -> [m |-> EmptyMap, err |-> ErrInvalidInput]

\* A plausible slip: presence alone adopts the value, blank or not.
Present(t, k) == k \in DOMAIN t

\* v, ok := t[k]; ok && strings.TrimSpace(v) != ""
NonBlank(t, k) == k \in DOMAIN t /\ TrimSpace(t[k]) # <<>>

Repeat(val, n) == [i \in 1..n |-> val]

\* dayOfMonthOverride, the loop over the pairs from pair i on
RECURSIVE dayOfMonthPairs(_, _, _)
dayOfMonthPairs(parts, i, today) ==
    IF i > Len(parts) THEN [s |-> <<>>, ok |-> FALSE]
    ELSE
      LET p  == TrimSpace(parts[i])
          kv == SplitN2(p, ":")
      IN  IF p = <<>> \/ Len(kv) # 2 THEN dayOfMonthPairs(parts, i + 1, today)
          ELSE
            LET dstr == TrimSpace(kv[1])
                val  == TrimSpace(kv[2])
                d    == Atoi(dstr)
            IN  IF ~d.ok THEN dayOfMonthPairs(parts, i + 1, today)
                ELSE IF d.val = today
                THEN IF val = <<>> THEN [s |-> <<>>, ok |-> FALSE]
                     ELSE [s |-> Join(Repeat(val, 24), <<",">>), ok |-> TRUE]
                ELSE dayOfMonthPairs(parts, i + 1, today)

\* A plausible slip: the loop over the pairs starts one pair late.
dayOfMonthOverrideSkipFirst(v, today) ==
    LET w == TrimSpace(v) IN
    IF w = <<>> THEN [s |-> <<>>, ok |-> FALSE]
    ELSE dayOfMonthPairs(Split(w, ","), 2, today)

\* dayOfMonthOverride(v, today)
dayOfMonthOverride(v, today) ==
    LET w == TrimSpace(v) IN
    IF w = <<>> THEN [s |-> <<>>, ok |-> FALSE]
    ELSE dayOfMonthPairs(Split(w, ","), 1, today)

\* AnykeyNLScheduler.ActiveSchedule: later (more specific) matches override
ActiveSchedule(ts, tags) ==
    LET conv == toStringMap(tags)
        t    == conv.m
        a1   == IF NonBlank(t, ANYDAY) THEN t[ANYDAY] ELSE <<>>
        a2   == IF ts.dow \in WEEKDAYS
                THEN IF NonBlank(t, WEEKDAY) THEN t[WEEKDAY] ELSE a1
                ELSE IF ts.dow \in WEEKENDS
                THEN IF NonBlank(t, WEEKEND) THEN t[WEEKEND] ELSE a1
                ELSE a1
        a3   == IF NonBlank(t, ts.dow) THEN t[ts.dow] ELSE a2
        nthKey == ts.dow \o ToString(ts.dnr)
        a4   == IF NonBlank(t, nthKey) THEN t[nthKey] ELSE a3
        rep  == IF NonBlank(t, DAYOFMO) THEN dayOfMonthOverride(t[DAYOFMO], ts.dom)
                ELSE [s |-> <<>>, ok |-> FALSE]
        a5   == IF rep.ok THEN rep.s ELSE a4
    IN  IF conv.err # NoErr THEN [s |-> <<>>, err |-> conv.err]
        ELSE [s |-> a5, err |-> NoErr]

\* The mapping of earlier variants of the scheduler: 0 and above switch on.
NumericActionHistoric(wantInt) ==
    IF wantInt < 0 THEN OFF ELSE ON

\* The numeric mapping at the end of parseSchedule
NumericAction(wantInt) ==
    IF wantInt <= 0 THEN OFF
    ELSE IF wantInt = 1 THEN ON
    ELSE ToAction(IF wantInt > 127 THEN 127 ELSE wantInt)

\* A plausible slip: the hour taken as a one-based index.
TokenAtOneBased(tokens, hour) == tokens[IF hour = 0 THEN Len(tokens) ELSE hour]

\* `want := tokens[hour]`: Go indexes from 0, the sequence from 1
TokenAt(tokens, hour) == tokens[hour + 1]

\* A plausible slip: the blank schedule is not let through before the tokens
\* are counted.
parseScheduleCountsBlank(sch, hour) ==
    LET idx    == Index(sch, "#")
        cut    == IF idx > 0 THEN SubSeq(sch, 1, idx - 1) ELSE sch
        s      == TrimSpace(cut)
        raw    == Split(s, ",")
        tokens == [i \in 1..Len(raw) |-> TrimSpace(raw[i])]
        want   == TokenAt(tokens, hour)
        n      == Atoi(want)
    IN  IF Len(tokens) # 24
        THEN [act |-> NULL_ACTION, err |-> ErrInvalidTokenCount(24, Len(tokens))]
        ELSE IF want = <<>> \/ want = <<"*">>
        THEN [act |-> NULL_ACTION, err |-> NoErr]
        ELSE IF HasPrefix(want, "(") /\ HasSuffix(want, ")")
        THEN [act |-> NULL_ACTION, err |-> ErrUnsupportedToken(want)]
        ELSE IF ~n.ok
        THEN [act |-> NULL_ACTION, err |-> ErrInvalidToken(want)]
        ELSE [act |-> NumericAction(n.val), err |-> NoErr]

\* AnykeyNLScheduler.parseSchedule(sch, hour)
parseSchedule(sch, hour) ==
    LET idx    == Index(sch, "#")
        cut    == IF idx > 0 THEN SubSeq(sch, 1, idx - 1) ELSE sch
        s      == TrimSpace(cut)
        raw    == Split(s, ",")
        tokens == [i \in 1..Len(raw) |-> TrimSpace(raw[i])]
        want   == TokenAt(tokens, hour)
        n      == Atoi(want)
    IN  IF s = <<>> THEN [act |-> NULL_ACTION, err |-> NoErr]
        ELSE IF Len(tokens) # 24
        THEN [act |-> NULL_ACTION, err |-> ErrInvalidTokenCount(24, Len(tokens))]
        ELSE IF want = <<>> \/ want = <<"*">>
        THEN [act |-> NULL_ACTION, err |-> NoErr]
        ELSE IF HasPrefix(want, "(") /\ HasSuffix(want, ")")
        THEN [act |-> NULL_ACTION, err |-> ErrUnsupportedToken(want)]
        ELSE IF ~n.ok
        THEN [act |-> NULL_ACTION, err |-> ErrInvalidToken(want)]
        ELSE [act |-> NumericAction(n.val), err |-> NoErr]

\* AnykeyNLScheduler.Evaluate(input any)
Evaluate(ts, input) ==
    IF input.type \in {"string", "[]byte", "fmt.Stringer"}
    THEN parseSchedule(input.s, ts.hour)
    ELSE LET active == ActiveSchedule(ts, input) IN
         IF active.err # NoErr THEN [act |-> NULL_ACTION, err |-> active.err]
         ELSE IF TrimSpace(active.s) = <<>> THEN [act |-> NULL_ACTION, err |-> NoErr]
         ELSE parseSchedule(active.s, ts.hour)

(***************************************************************************)
(* Bounds of the model                                                     *)
(***************************************************************************)
\* const TC_WORK_QUEUE uint8 = 8 in the source: the capacity of the resource
\* channel and the number of workers Run starts.  Scaled down to keep the
\* state space small.
TC_WORK_QUEUE == 2

\* handler.DEFAULT_MAX_REQUESTS, 8 in the source: the capacity of the token
\* pool when the options name none.  Scaled down to keep the state space
\* small.
DEFAULT_MAX_REQUESTS == 2

\* Most resources one search returns.
MaxItems == 3

\* Most child nodes the nested DbNode search returns.
MaxNodes == 2

\* Most control-plane calls followed within one refill interval.
MaxIntervalCalls == 4

(***************************************************************************)
(* Resources                                                               *)
(***************************************************************************)
Sched24(tok) == Join(Repeat(tok, 24), <<",">>)

\* item.DefinedTags[ns]: a map[string]interface{}; a missing namespace is the
\* nil map, which reads as the empty one.
Tags(key, val) == AnyMapInput([k \in {key} |-> val])

NoTags == AnyMapInput(EmptyMap)

\* A ResourceSummary: Identifier, ResourceType, LifecycleState, DefinedTags[ns]
Resource(id, kind, state, tags) ==
    [id |-> id, kind |-> kind, state |-> state, tags |-> tags]

NoResource == Resource(0, "", "", NoTags)

\* a 24-token schedule that holds at0, at10 and at23 at the hours 0, 10 and
\* 23 and `other` everywhere else
HourMixed(at0, at10, at23, other) ==
    Join([i \in 1..24 |-> CASE i = 1 -> at0 [] i = 11 -> at10 [] i = 24 -> at23
                            [] OTHER -> other], <<",">>)

\* The resources of the region the controller scans, as a cyclic catalogue;
\* a search returns a window of it.  The first one is off at the hours 10 and
\* 23 and on at every other hour.
Catalogue ==
    << Resource(1, "Instance", "RUNNING",
                Tags(ANYDAY, HourMixed(<<"1">>, <<"0">>, <<"0">>, <<"1">>))),
       Resource(2, "Instance", "STOPPED", Tags(ANYDAY, Sched24(<<"1">>))),
       Resource(3, "Instance", "STOPPED", Tags(ANYDAY, Sched24(<<"0">>))),
       Resource(4, "Instance", "RUNNING", Tags(ANYDAY, Sched24(<<"3">>))),
       Resource(5, "DbSystem", "AVAILABLE", Tags(ANYDAY, Sched24(<<"0">>))),
       Resource(6, "Instance", "RUNNING", Tags(ANYDAY, <<"1", ",", "1", ",", "1">>)),
       Resource(7, "Instance", "RUNNING", Tags(ANYDAY, Sched24(<<"*">>))),
       Resource(8, "AnalyticsInstance", "RUNNING", NoTags),
       Resource(9, "DbNode", "AVAILABLE", Tags(ANYDAY, Sched24(<<"0">>))),
       Resource(10, "Instance", "STOPPED", Tags(ANYDAY, Sched24(<<"2">>))) >>

Window(from, n) ==
    [i \in 1..n |-> Catalogue[((from + i - 2) % Len(Catalogue)) + 1]]

\* time.Now().In(loc) at scheduler construction
Now0 == [hour |-> 10, dow |-> "Monday", dom |-> 11]

\* Instants are hours counted from 00:00 of Monday the 11th on the host's
\* clock; run builds its scheduler at the instant StartInstant.
StartInstant == 10

DayNames == << "Monday", "Tuesday", "Wednesday", "Thursday", "Friday", "Saturday",
              "Sunday" >>

\* time.Local, and the offset of a location from it in hours
LocalZone == "Local"

ZoneOffset(loc) == CASE loc = LocalZone -> 0 [] loc = "Etc/GMT-14" -> 14

\* time.Now().In(loc) at the instant t: hour, weekday and day of the month
TimeIn(loc, t) ==
    LET h == t + ZoneOffset(loc)
    IN  [hour |-> h % 24, dow |-> DayNames[((h \div 24) % 7) + 1],
         dom |-> 11 + (h \div 24)]

\* NewAnykeyNLScheduler: NewAnykeyNLSchedulerWithLocation(time.Local)
NewAnykeyNLScheduler(t) == NewAnykeyNLSchedulerWithLocation(TimeIn(LocalZone, t))

\* scheduler.ScheduleFunc(fn)(): both branches return NewAnykeyNLScheduler
ScheduleFunc(t) == NewAnykeyNLScheduler(t)

\* an option that was not given, and one that was
NoOption == [set |-> FALSE]

Option(str) == [set |-> TRUE, s |-> str]

\* strings.ToLower on the letters the options use
ToLowerChar(c) ==
    CASE c = "A" -> "a" [] c = "F" -> "f" [] c = "L" -> "l" [] c = "N" -> "n"
      [] c = "O" -> "o" [] OTHER -> c

ToLower(str) == [i \in 1..Len(str) |-> ToLowerChar(str[i])]

\* NewConfiguration: the location of the timezone option, time.Local without it
ConfigTimezone(opt) == IF ~opt.set THEN LocalZone ELSE opt.s

\* NewConfiguration: the action of the action option
ConfigAction(opt) ==
    IF ~opt.set THEN ALL
    ELSE CASE ToLower(opt.s) = <<"a", "l", "l">> -> ALL
           [] ToLower(opt.s) = <<"o", "n">> -> ON
           [] ToLower(opt.s) = <<"o", "f", "f">> -> OFF
           [] OTHER -> ALL

(***************************************************************************)
(* State                                                                   *)
(***************************************************************************)
VARIABLES
    sched,          \* the scheduler: hour, dow, dom, dnr captured at construction
    tcAction,       \* TagController.action
    regionItems,    \* what the catalog search of the region would return
    evalMemo,       \* ScheduleOf(sched, r) for each r of regionItems
    rpc,            \* TagController.Run: where it is
    items,          \* collection.Items
    nspawn,         \* workers started by Run so far
    nsent,          \* items sent into the channel so far
    queue,          \* the buffered channel `resources` (indices into items)
    closed,         \* close(resources) done
    workerWg,       \* counter of Run's workerWg
    wk,             \* per worker: position, held item, handler invocation
    rstat,          \* per item: Discovered, Evaluated, Skipped, Dispatched, ...
    rcalls,         \* per item: lifecycle calls issued for it
    maxRequests,    \* capacity of the handler's token pool
    tokens,         \* permits available in the token pool
    granted,        \* permits the pool handed out since the last refill
    intervalCalls,  \* control-plane calls issued since the last refill
    opc,            \* main.run: where it is
    cfgRegion,      \* cfg.Region(): "" when no region is configured
    subscribed,     \* what idClient.GetRegions() returns
    idClientOK,     \* whether id.NewIdentityClient succeeds
    regions,        \* run's outer `regions`
    ri,             \* index of the region loop
    ctlNil,         \* NewTagController returned nil
    wg,             \* counter of run's WaitGroup
    input,          \* the value a caller hands to the scheduler directly
    evalRet,        \* what Evaluate(input) returned to that caller
    activeRet,      \* what ActiveSchedule(input) returned to that caller
    evalAgain,      \* what a later Evaluate(input) on the same scheduler returned
    activeAgain,    \* what a later ActiveSchedule(input) on the same scheduler returned
    evalTwoStep,    \* what Evaluate returned for the string ActiveSchedule(input) gave
    cmpArgs,        \* the two actions a caller hands to action.Compare
    cmpRet,         \* what Compare(a, b) returned to that caller
    cmpRev,         \* what Compare(b, a) returned to that caller
    clock,          \* built: the instant the scheduler was built; now: the wall clock
    cfgTimezone,    \* the timezone option of the configuration
    cfgAction,      \* the action option of the configuration
    svc,            \* the search service: its pages, the request it fails at
    srch,           \* TagController.Search: request, rsc, requests sent, result
    locArg,         \* the location a caller hands to SetLocation
    locRet,         \* what SetLocation(locArg) returned to that caller
    rlog,           \* per item: the level its kind was logged at as unsupported
    ctlRegion       \* the region the clients of the controller are bound to

vars == << sched, tcAction, regionItems, evalMemo, rpc, items, nspawn, nsent, queue, closed,
           workerWg, wk, rstat, rcalls, maxRequests, tokens, granted, intervalCalls,
           opc, cfgRegion, subscribed, idClientOK, regions, ri, ctlNil, wg,
           input, evalRet, activeRet, evalAgain, activeAgain, evalTwoStep, cmpArgs, cmpRet,
           cmpRev, clock, cfgTimezone, cfgAction, svc, srch, locArg, locRet, rlog,
           ctlRegion >>

ctlVars == << rpc, items, nspawn, nsent, queue, closed, workerWg >>

poolVars == << tokens, granted, intervalCalls >>

orchVars == << opc, regions, ri, ctlNil >>

\* a direct call of the scheduler and its results
callVars == << input, evalRet, activeRet, evalAgain, activeAgain, evalTwoStep >>

\* a direct call of action.Compare and its results
cmpVars == << cmpArgs, cmpRet, cmpRev >>

\* the wall clock and the options the run never changes
cfgVars == << clock, cfgTimezone, cfgAction >>

\* a direct call of TagController.Search and the service it pages through
searchVars == << svc, srch >>

\* a direct call of SetLocation and its result
locVars == << locArg, locRet >>

\* what the pipeline, the handler and the orchestrator never change
staticVars == << sched, tcAction, regionItems, evalMemo, maxRequests, cfgRegion, subscribed,
                 idClientOK, callVars, cmpVars, cfgVars, searchVars, locVars >>

\* with the log of unsupported kinds, which only the worker's switch writes,
\* and the region of the clients, which only SetRegion writes
envVars == << staticVars, rlog, ctlRegion >>

\* One more slot than Run starts workers, so that "at most TC_WORK_QUEUE
\* workers" is a statement about Run and not about the model's domain.
Workers == 1..(TC_WORK_QUEUE + 1)

\* A worker that holds nothing
FreshWorker(pc) ==
    [pc |-> pc, idx |-> 0, res |-> NoResource, act |-> NULL_ACTION, err |-> NoErr,
     acq |-> "none", calls |-> <<>>, found |-> "none", nodes |-> <<>>, ni |-> 0,
     tried |-> <<>>, answers |-> <<>>, errs |-> <<>>, ret |-> "none", joined |-> <<>>]

(***************************************************************************)
(* TagController.Run                                                       *)
(***************************************************************************)
\* `for i := range TC_WORK_QUEUE`: how many workers Run starts
SpawnCountOver == TC_WORK_QUEUE + 1

SpawnCount == TC_WORK_QUEUE

\* tc.Search(QUERY) returned the collection
RunSearchOK ==
    /\ rpc = "search"
    /\ items' = regionItems
    /\ rstat' = [i \in 1..Len(regionItems) |-> "Discovered"]
    /\ rpc' = IF SpawnCount > 0 THEN "spawn" ELSE "send"
    /\ UNCHANGED << nspawn, nsent, queue, closed, workerWg, wk, rcalls, wg >>
    /\ UNCHANGED << poolVars, orchVars, envVars >>

\* `go tc.worker(i, resources, &workerWg)`
RunSpawn ==
    /\ rpc = "spawn"
    /\ nspawn' = nspawn + 1
    /\ wk' = [wk EXCEPT ![nspawn + 1] = FreshWorker("recv")]
    /\ rpc' = "add"
    /\ UNCHANGED << items, nsent, queue, closed, workerWg, rstat, rcalls, wg >>
    /\ UNCHANGED << poolVars, orchVars, envVars >>

\* `workerWg.Add(1)`, after the go statement
RunAdd ==
    /\ rpc = "add"
    /\ workerWg' = workerWg + 1
    /\ rpc' = IF nspawn < SpawnCount THEN "spawn" ELSE "send"
    /\ UNCHANGED << items, nspawn, nsent, queue, closed, wk, rstat, rcalls, wg >>
    /\ UNCHANGED << poolVars, orchVars, envVars >>

\* A plausible slip: the channel is made without the capacity the producer
\* is to respect, so that a send never blocks.
RunSendUnbounded ==
    /\ rpc = "send"
    /\ nsent < Len(items)
    /\ queue' = Append(queue, nsent + 1)
    /\ nsent' = nsent + 1
    /\ UNCHANGED << rpc, items, nspawn, closed, workerWg, wk, rstat, rcalls, wg >>
    /\ UNCHANGED << poolVars, orchVars, envVars >>

\* `resources <- item`: blocks while the channel holds TC_WORK_QUEUE items
RunSend ==
    /\ rpc = "send"
    /\ nsent < Len(items)
    /\ Len(queue) < TC_WORK_QUEUE
    /\ queue' = Append(queue, nsent + 1)
    /\ nsent' = nsent + 1
    /\ UNCHANGED << rpc, items, nspawn, closed, workerWg, wk, rstat, rcalls, wg >>
    /\ UNCHANGED << poolVars, orchVars, envVars >>

\* `close(resources)`
RunClose ==
    /\ rpc = "send"
    /\ nsent = Len(items)
    /\ closed' = TRUE
    /\ rpc' = "wait"
    /\ UNCHANGED << items, nspawn, nsent, queue, workerWg, wk, rstat, rcalls, wg >>
    /\ UNCHANGED << poolVars, orchVars, envVars >>

\* `workerWg.Wait()` returns, then the deferred controlWg.Done() runs: a
\* WaitGroup whose counter would go negative panics.
RunReturn ==
    /\ rpc = "wait"
    /\ workerWg = 0
    /\ rpc' = "returned"
    /\ IF wg > 0
         THEN wg' = wg - 1 /\ opc' = opc
         ELSE wg' = wg /\ opc' = "panic"
    /\ UNCHANGED << items, nspawn, nsent, queue, closed, workerWg, wk, rstat, rcalls >>
    /\ UNCHANGED << poolVars, regions, ri, ctlNil, envVars >>

\* tc.Search(QUERY) failed: Run logs and returns, the deferred Done() runs
RunSearchFail ==
    /\ rpc = "search"
    /\ rpc' = "returned"
    /\ IF wg > 0
         THEN wg' = wg - 1 /\ opc' = opc
         ELSE wg' = wg /\ opc' = "panic"
    /\ UNCHANGED << items, nspawn, nsent, queue, closed, workerWg, wk, rstat, rcalls >>
    /\ UNCHANGED << poolVars, regions, ri, ctlNil, envVars >>

(***************************************************************************)
(* TagController.worker                                                    *)
(***************************************************************************)
\* A plausible slip: the handler is started with `go`, so that the worker is
\* back at the channel while the handler still runs.
WorkerReceiveEarly(w) ==
    /\ wk[w].pc \in {"recv", "handle"}
    /\ opc # "panic"
    /\ queue # <<>>
    /\ queue' = Tail(queue)
    /\ wk' = [wk EXCEPT ![w] = [FreshWorker("eval") EXCEPT
                                  !.idx = Head(queue), !.res = items[Head(queue)]]]
    /\ UNCHANGED << rpc, items, nspawn, nsent, closed, workerWg, rstat, rcalls, wg >>
    /\ UNCHANGED << poolVars, orchVars, envVars >>

\* A plausible slip: the worker reads the head of the queue and leaves it
\* there for the next receive.
WorkerReceivePeek(w) ==
    /\ wk[w].pc = "recv"
    /\ opc # "panic"
    /\ queue # <<>>
    /\ queue' = queue
    /\ wk' = [wk EXCEPT ![w] = [FreshWorker("eval") EXCEPT
                                  !.idx = Head(queue), !.res = items[Head(queue)]]]
    /\ UNCHANGED << rpc, items, nspawn, nsent, closed, workerWg, rstat, rcalls, wg >>
    /\ UNCHANGED << poolVars, orchVars, envVars >>

\* `item, more := <-resources` with more = true
WorkerReceive(w) ==
    /\ wk[w].pc = "recv"
    /\ opc # "panic"
    /\ queue # <<>>
    /\ queue' = Tail(queue)
    /\ wk' = [wk EXCEPT ![w] = [FreshWorker("eval") EXCEPT
                                  !.idx = Head(queue), !.res = items[Head(queue)]]]
    /\ UNCHANGED << rpc, items, nspawn, nsent, closed, workerWg, rstat, rcalls, wg >>
    /\ UNCHANGED << poolVars, orchVars, envVars >>

\* the channel is closed and drained: the worker returns, wg.Done() runs
WorkerExit(w) ==
    /\ wk[w].pc = "recv"
    /\ opc # "panic"
    /\ queue = <<>>
    /\ closed
    /\ wk' = [wk EXCEPT ![w] = FreshWorker("exited")]
    /\ workerWg' = workerWg - 1
    /\ UNCHANGED << rpc, items, nspawn, nsent, queue, closed, rstat, rcalls, wg >>
    /\ UNCHANGED << poolVars, orchVars, envVars >>

\* ActiveSchedule, then Evaluate of the schedule it chose: what a worker
\* computes for a resource.  aserr is ActiveSchedule's error, act and err are
\* what Evaluate returned.
ScheduleOf(ts, res) ==
    LET as == ActiveSchedule(ts, res.tags)
        ev == Evaluate(ts, StringInput(as.s))
    IN  [aserr |-> as.err, act |-> ev.act, err |-> ev.err]

Sched0 == NewAnykeyNLSchedulerWithLocation(Now0)

\* The worker after its evaluation of the item it holds.  An ActiveSchedule
\* error skips the item; an Evaluate error is logged and the worker goes on
\* with the action Evaluate returned.  The scheduler does not change after its
\* construction and Evaluate reads nothing else: evalMemo tabulates
\* ScheduleOf for the resources of the region.
Evaluated(self) ==
    IF evalMemo[self.idx].aserr # NoErr
      THEN FreshWorker("recv")
      ELSE [self EXCEPT !.pc = "compare", !.act = evalMemo[self.idx].act,
                        !.err = evalMemo[self.idx].err]

WorkerEvaluate(w) ==
    /\ wk[w].pc = "eval"
    /\ opc # "panic"
    /\ wk' = [wk EXCEPT ![w] = Evaluated(wk[w])]
    /\ rstat' = [rstat EXCEPT ![wk[w].idx] =
                    IF Evaluated(wk[w]).pc = "recv" THEN "Skipped" ELSE "Evaluated"]
    /\ UNCHANGED << ctlVars, rcalls, wg >>
    /\ UNCHANGED << poolVars, orchVars, envVars >>

\* what the worker's switch on *item.ResourceType does with a compatible item
WorkerRoute(kind) == IF kind = "Instance" THEN "handle" ELSE "unsupported"

SetStat(i, v) == IF i \in DOMAIN rstat THEN [rstat EXCEPT ![i] = v] ELSE rstat

\* the level of the line the default branch of the worker's switch writes:
\* tc.log.Error("Unsupported resource type", ...)
UnsupportedLevel == "ERROR"

SetLog(i, v) == IF i \in DOMAIN rlog THEN [rlog EXCEPT ![i] = v] ELSE rlog

\* `if !action.Compare(tc.action, act) { continue }`, then the switch on the
\* resource type: "Instance" goes to the handler, anything else is logged as
\* unsupported.  The worker calls handlers.HandleCompute, a package the
\* repository does not hold; the handler entered here is
\* ResourceHandler.HandleResource of package handler.
WorkerCompare(w) ==
    /\ wk[w].pc = "compare"
    /\ opc # "panic"
    /\ IF ~Compare(tcAction, wk[w].act)
         THEN /\ wk' = [wk EXCEPT ![w] = FreshWorker("recv")]
              /\ rstat' = SetStat(wk[w].idx, "Skipped")
              /\ rlog' = rlog
         ELSE IF WorkerRoute(wk[w].res.kind) = "handle"
                THEN /\ wk' = [wk EXCEPT ![w].pc = "handle"]
                     /\ rstat' = SetStat(wk[w].idx, "Dispatched")
                     /\ rlog' = rlog
                ELSE /\ wk' = [wk EXCEPT ![w] = FreshWorker("recv")]
                     /\ rstat' = SetStat(wk[w].idx, "Skipped")
                     /\ rlog' = SetLog(wk[w].idx, UnsupportedLevel)
    /\ UNCHANGED << ctlVars, rcalls, wg >>
    /\ UNCHANGED << poolVars, orchVars, staticVars, ctlRegion >>

\* where the worker goes once the handler has returned: the error is logged
\* and the loop goes on
AfterHandleAbort(ret) == IF ret = "error" THEN "exited" ELSE "recv"

AfterHandle(ret) == "recv"

\* how a handled item ended
Outcome(ret, calls) ==
    IF ret = "error" THEN "Failed"
    ELSE IF \E k \in DOMAIN calls : calls[k].verb \in {"START", "STOP"}
           THEN "Acted" ELSE "NoOp"

\* the handler returned to the worker
WorkerHandled(w) ==
    /\ wk[w].pc = "returned"
    /\ opc # "panic"
    /\ rstat' = SetStat(wk[w].idx, Outcome(wk[w].ret, wk[w].calls))
    /\ wk' = [wk EXCEPT ![w] = FreshWorker(AfterHandle(wk[w].ret))]
    /\ workerWg' = IF AfterHandle(wk[w].ret) = "exited" THEN workerWg - 1 ELSE workerWg
    /\ UNCHANGED << rpc, items, nspawn, nsent, queue, closed, rcalls, wg >>
    /\ UNCHANGED << poolVars, orchVars, envVars >>

(***************************************************************************)
(* ResourceHandler                                                         *)
(***************************************************************************)
\* tokenpool.NewTokenPool(*opts.MaxRequests, *opts.MaxRequests, interval):
\* the permits the pool starts with
InitialPermitsOver(maxReq) == maxReq + 1

InitialPermits(maxReq) == maxReq

\* opts.MaxRequests, DEFAULT_MAX_REQUESTS when nil (0 stands for nil)
PoolCapacity(optMaxRequests) ==
    IF optMaxRequests = 0 THEN DEFAULT_MAX_REQUESTS ELSE optMaxRequests

\* handleCompute and the per-node branch of handleDbSystem
ComputeVerb(act, state) ==
    IF act = OFF /\ state \notin {"STOPPED", "STOPPING", "TERMINATING", "TERMINATED"}
      THEN "STOP"
    ELSE IF act = ON /\ state \notin {"RUNNING", "STARTING", "TERMINATING", "TERMINATED"}
      THEN "START"
    ELSE "NONE"

DbNodeVerb(act, state) ==
    IF act = OFF /\ state \notin {"STOPPED", "STOPPING", "TERMINATING", "TERMINATED"}
      THEN "STOP"
    ELSE IF act = ON /\ state \notin {"RUNNING", "STARTING", "TERMINATING", "TERMINATED"}
      THEN "START"
    ELSE "NONE"

\* handleAnalyticsInstance
AnalyticsVerb(act, state) ==
    IF act = OFF /\ state # "Inactive" /\ state # "DELETED" THEN "STOP"
    ELSE IF act = ON /\ state # "RUNNING" /\ state # "DELETED" THEN "START"
    ELSE "NONE"

\* the switch of HandleResource
HandlerOf(kind) ==
    CASE kind = "Instance" -> "handleCompute"
      [] kind = "DbSystem" -> "handleDbSystem"
      [] kind = "AnalyticsInstance" -> "handleAnalyticsInstance"
      [] OTHER -> "none"

\* a control-plane call and the lifecycle state of the resource it is for
Call(api, verb, state) == [api |-> api, verb |-> verb, state |-> state]

\* what the nested DbNode search can return
NodeStates == {"RUNNING", "STOPPED"}

RECURSIVE SeqsUpTo(_, _)
SeqsUpTo(S, n) ==
    IF n = 0 THEN {<<>>}
    ELSE LET shorter == SeqsUpTo(S, n - 1)
         IN  shorter \cup {Append(q, x) : q \in shorter, x \in S}

NodeLists == SeqsUpTo(NodeStates, MaxNodes)

\* a nil *string: t.Resource.ResourceType of a task that names no kind
NilString == "<nil>"

\* HandleResource with a nil ResourceType: the arguments of the Debug line at
\* the head of the function are evaluated before the nil test is reached,
\* and *t.Resource.ResourceType dereferences the nil pointer.  The goroutine
\* panics and takes the process with it.
HandleNilKind(w) ==
    /\ wk[w].pc = "handle"
    /\ opc # "panic"
    /\ wk[w].res.kind = NilString
    /\ wk' = [wk EXCEPT ![w].pc = "panic"]
    /\ opc' = "panic"
    /\ UNCHANGED << ctlVars, rstat, rcalls, wg, poolVars >>
    /\ UNCHANGED << regions, ri, ctlNil, envVars >>

\* h.tp.Acquire(ctx) returns with a permit
HandleAcquire(w) ==
    /\ wk[w].pc = "handle"
    /\ opc # "panic"
    /\ wk[w].res.kind # NilString
    /\ tokens > 0
    /\ tokens' = tokens - 1
    /\ granted' = granted + 1
    /\ wk' = [wk EXCEPT ![w].pc = "route", ![w].acq = "token"]
    /\ UNCHANGED << ctlVars, rstat, rcalls, wg, intervalCalls >>
    /\ UNCHANGED << orchVars, envVars >>

\* h.tp.Acquire(ctx) returns because ctx expired after MAX_INTERVAL: no permit
\* is taken.  HandleResource drops what Acquire returns and goes on.
HandleAcquireTimeout(w) ==
    /\ wk[w].pc = "handle"
    /\ opc # "panic"
    /\ wk[w].res.kind # NilString
    /\ tokens = 0
    /\ wk' = [wk EXCEPT ![w].pc = "route", ![w].acq = "timeout"]
    /\ UNCHANGED << ctlVars, rstat, rcalls, wg, poolVars >>
    /\ UNCHANGED << orchVars, envVars >>

ApiOf(handler) ==
    CASE handler = "handleCompute" -> "InstanceAction"
      [] handler = "handleDbSystem" -> "DbNodeAction"
      [] handler = "handleAnalyticsInstance" -> "AnalyticsInstanceAction"
      [] OTHER -> "none"

LifecycleCalls(calls) == SelectSeq(calls, LAMBDA c : c.verb \in {"START", "STOP"})

\* a lifecycle call for the item the worker holds leaves the handler
Issued(w) ==
    IF wk[w].idx \in DOMAIN rcalls
      THEN [rcalls EXCEPT ![wk[w].idx] = @ + 1]
      ELSE rcalls

\* the switch of HandleResource, up to the first control-plane call of the
\* kind's handler or its return when there is none
HandleRoute(w) ==
    /\ wk[w].pc = "route"
    /\ opc # "panic"
    /\ LET h == HandlerOf(wk[w].res.kind)
           verb == IF h = "handleCompute"
                     THEN ComputeVerb(wk[w].act, wk[w].res.state)
                     ELSE AnalyticsVerb(wk[w].act, wk[w].res.state)
       IN  CASE h = "none" ->
                  /\ wk' = [wk EXCEPT ![w].pc = "returned", ![w].ret = "nil"]
                  /\ UNCHANGED << rcalls, intervalCalls >>
             [] h = "handleDbSystem" ->
                  /\ intervalCalls < MaxIntervalCalls
                  /\ intervalCalls' = intervalCalls + 1
                  /\ wk' = [wk EXCEPT ![w].pc = "dbsearch",
                              ![w].calls = Append(@, Call("SearchResources", "QUERY", wk[w].res.state))]
                  /\ UNCHANGED rcalls
             [] OTHER ->
                  IF verb = "NONE"
                    THEN /\ wk' = [wk EXCEPT ![w].pc = "returned", ![w].ret = "nil"]
                         /\ UNCHANGED << rcalls, intervalCalls >>
                    ELSE /\ intervalCalls < MaxIntervalCalls
                         /\ intervalCalls' = intervalCalls + 1
                         /\ wk' = [wk EXCEPT ![w].pc = "calling",
                                     ![w].calls = Append(@, Call(ApiOf(h), verb, wk[w].res.state))]
                         /\ rcalls' = Issued(w)
    /\ UNCHANGED << ctlVars, rstat, wg, tokens, granted >>
    /\ UNCHANGED << orchVars, envVars >>

\* the lifecycle call of handleCompute or handleAnalyticsInstance returns
CallReturn(w) ==
    /\ wk[w].pc = "calling"
    /\ opc # "panic"
    /\ \E ok \in BOOLEAN :
         wk' = [wk EXCEPT ![w].pc = "returned",
                          ![w].ret = IF ok THEN "nil" ELSE "error"]
    /\ UNCHANGED << ctlVars, rstat, rcalls, wg, poolVars >>
    /\ UNCHANGED << orchVars, envVars >>

\* A plausible slip: the items of the response are kept whatever the error.
getDbNodesKeepItems(ok, respItems) == respItems

\* getDbNodes: when SearchResources returns an error the empty list is
\* returned; otherwise the items of the response, in its order.  A response
\* whose status is outside 200..299 is logged and its items are kept like
\* those of any other response.
getDbNodes(ok, respItems) == IF ok THEN respItems ELSE <<>>

DbSearchReturn(w) ==
    /\ wk[w].pc = "dbsearch"
    /\ opc # "panic"
    /\ \E ok \in BOOLEAN, respItems \in NodeLists :
         wk' = [wk EXCEPT ![w].pc = "dbloop",
                          ![w].found = IF ok THEN "ok" ELSE "error",
                          ![w].nodes = getDbNodes(ok, respItems), ![w].ni = 1]
    /\ UNCHANGED << ctlVars, rstat, rcalls, wg, poolVars >>
    /\ UNCHANGED << orchVars, envVars >>

\* one turn of `for _, node := range nodes`, and the return after the loop
DbNodeStep(w) ==
    /\ wk[w].pc = "dbloop"
    /\ opc # "panic"
    /\ IF wk[w].ni > Len(wk[w].nodes)
         THEN /\ wk' = [wk EXCEPT ![w].pc = "returned",
                          ![w].ret = IF Len(wk[w].errs) > 0 THEN "error" ELSE "nil",
                          ![w].joined = wk[w].errs]
              /\ UNCHANGED << rcalls, intervalCalls >>
         ELSE LET node == wk[w].nodes[wk[w].ni]
                  verb == DbNodeVerb(wk[w].act, node)
              IN  IF verb = "NONE"
                    THEN /\ wk' = [wk EXCEPT ![w].ni = @ + 1]
                         /\ UNCHANGED << rcalls, intervalCalls >>
                    ELSE /\ intervalCalls < MaxIntervalCalls
                         /\ intervalCalls' = intervalCalls + 1
                         /\ wk' = [wk EXCEPT ![w].pc = "dbcalling",
                                     ![w].tried = Append(@, wk[w].ni),
                                     ![w].calls = Append(@, Call("DbNodeAction", verb, node))]
                         /\ rcalls' = Issued(w)
    /\ UNCHANGED << ctlVars, rstat, wg, tokens, granted >>
    /\ UNCHANGED << orchVars, envVars >>

\* A plausible slip: the first failed node action is returned at once, the
\* nodes after it are not attempted.
AfterNodeAbort(self, ok) ==
    IF ok
      THEN [self EXCEPT !.pc = "dbloop", !.ni = @ + 1, !.answers = Append(@, ok)]
      ELSE [self EXCEPT !.pc = "returned", !.answers = Append(@, ok),
                        !.errs = << self.ni >>, !.ret = "error", !.joined = << self.ni >>]

\* the handler once DbNodeAction has returned for the node at ni: a failure
\* is appended to errs and `continue` takes the loop to the next node
AfterNode(self, ok) ==
    [self EXCEPT !.pc = "dbloop", !.ni = @ + 1, !.answers = Append(@, ok),
                 !.errs = IF ok THEN @ ELSE Append(@, self.ni)]

\* h.database.DbNodeAction returns; a failure is collected and the loop goes on
DbNodeReturn(w) ==
    /\ wk[w].pc = "dbcalling"
    /\ opc # "panic"
    /\ \E ok \in BOOLEAN : wk' = [wk EXCEPT ![w] = AfterNode(wk[w], ok)]
    /\ UNCHANGED << ctlVars, rstat, rcalls, wg, poolVars >>
    /\ UNCHANGED << orchVars, envVars >>

\* the pool's ticker: the level goes back to the capacity, a new interval starts
Refill ==
    /\ opc # "panic"
    /\ tokens' = maxRequests
    /\ granted' = 0
    /\ intervalCalls' = 0
    /\ UNCHANGED << ctlVars, wk, rstat, rcalls, wg >>
    /\ UNCHANGED << orchVars, envVars >>

(***************************************************************************)
(* main.run                                                                *)
(***************************************************************************)
\* The region block of run.  With a configured region the outer `regions`
\* holds it.  Otherwise `regions, err := idClient.GetRegions()` declares a
\* new `regions` in the else block: the outer one stays empty.
ResolveRegions(configured, listed) ==
    IF configured # "" THEN << configured >> ELSE << >>

OrchResolve ==
    /\ opc = "resolve"
    /\ IF cfgRegion # ""
         THEN opc' = "loop"
         ELSE IF ~idClientOK \/ Len(subscribed) = 0
                THEN opc' = "exit1"
                ELSE opc' = "loop"
    /\ regions' = ResolveRegions(cfgRegion, subscribed)
    /\ ri' = 1
    /\ UNCHANGED << ctlVars, wk, rstat, rcalls, wg, ctlNil >>
    /\ UNCHANGED << poolVars, envVars >>

\* A plausible slip: the scheduler is built inside the loop, once per region.
OrchConstructOwnScheduler ==
    /\ opc = "loop"
    /\ IF ri > Len(regions)
         THEN opc' = "wait" /\ ctlNil' = ctlNil /\ sched' = sched /\ evalMemo' = evalMemo
         ELSE /\ opc' = "setregion"
              /\ \E ok \in BOOLEAN : ctlNil' = ~ok
              /\ sched' = ScheduleFunc(clock.now)
              /\ evalMemo' = [i \in DOMAIN regionItems |->
                                ScheduleOf(ScheduleFunc(clock.now), regionItems[i])]
    /\ UNCHANGED << ctlVars, wk, rstat, rcalls, wg, regions, ri >>
    /\ UNCHANGED << poolVars, tcAction, regionItems, maxRequests, cfgRegion, subscribed,
                    idClientOK, callVars, cmpVars, cfgVars, searchVars, locVars, rlog,
                    ctlRegion >>

\* the head of `for i, region := range regions` and NewTagController, whose
\* error is logged only: the controller is nil when a client cannot be built
OrchConstruct ==
    /\ opc = "loop"
    /\ IF ri > Len(regions)
         THEN opc' = "wait" /\ ctlNil' = ctlNil
         ELSE /\ opc' = "setregion"
              /\ \E ok \in BOOLEAN : ctlNil' = ~ok
    /\ UNCHANGED << ctlVars, wk, rstat, rcalls, wg, regions, ri >>
    /\ UNCHANGED << poolVars, envVars >>

\* A plausible slip: the controller is started with the clients as
\* NewTagController made them.
SetRegionForgotten(bound, region) == bound

\* TagController.SetRegion(region): every client of the controller is set to
\* the region
SetRegion(bound, region) == region

\* controller.SetRegion(region): dereferences the controller
OrchSetRegion ==
    /\ opc = "setregion"
    /\ opc' = IF ctlNil THEN "panic" ELSE "go"
    /\ ctlRegion' = IF ctlNil THEN ctlRegion ELSE SetRegion(ctlRegion, regions[ri])
    /\ UNCHANGED << ctlVars, wk, rstat, rcalls, wg, regions, ri, ctlNil >>
    /\ UNCHANGED << poolVars, staticVars, rlog >>

\* `go controller.Run(&wg)`
OrchGo ==
    /\ opc = "go"
    /\ rpc' = "search"
    /\ opc' = "add"
    /\ UNCHANGED << items, nspawn, nsent, queue, closed, workerWg >>
    /\ UNCHANGED << wk, rstat, rcalls, wg, regions, ri, ctlNil >>
    /\ UNCHANGED << poolVars, envVars >>

\* `wg.Add(1)`, after the go statement
OrchAdd ==
    /\ opc = "add"
    /\ wg' = wg + 1
    /\ ri' = ri + 1
    /\ opc' = "loop"
    /\ UNCHANGED << ctlVars, wk, rstat, rcalls, regions, ctlNil >>
    /\ UNCHANGED << poolVars, envVars >>

\* A plausible slip: run returns without waiting for the controllers.
OrchNoWait ==
    /\ opc = "wait"
    /\ opc' = "done"
    /\ UNCHANGED << ctlVars, wk, rstat, rcalls, wg, regions, ri, ctlNil >>
    /\ UNCHANGED << poolVars, envVars >>

\* `wg.Wait()` returns
OrchWait ==
    /\ opc = "wait"
    /\ wg = 0
    /\ opc' = "done"
    /\ UNCHANGED << ctlVars, wk, rstat, rcalls, wg, regions, ri, ctlNil >>
    /\ UNCHANGED << poolVars, envVars >>

(***************************************************************************)
(* The region pipeline: one controller, run by a caller that has counted   *)
(* it in its WaitGroup and waits for it.                                   *)
(***************************************************************************)
SupportedActionsPool == {NULL_ACTION, OFF, ON, ALL}

RegionPool == {Window(from, n) : from \in 1..Len(Catalogue), n \in 0..MaxItems}

\* no result yet
Pending == [kind |-> "pending"]

NoInput == [type |-> "none"]

\* nobody calls the scheduler directly
NoCall ==
    /\ input = NoInput
    /\ evalRet = Pending
    /\ activeRet = Pending
    /\ evalAgain = Pending
    /\ activeAgain = Pending
    /\ evalTwoStep = Pending

NoArgs == [a |-> NULL_ACTION, b |-> NULL_ACTION, called |-> FALSE]

\* nobody calls action.Compare directly
NoCompare ==
    /\ cmpArgs = NoArgs
    /\ cmpRet = Pending
    /\ cmpRev = Pending

\* nobody calls Search page by page
NoSearch ==
    /\ svc = [pages |-> <<>>, failAt |-> 0]
    /\ srch = [pc |-> "detached", request |-> [limit |-> 0, page |-> 0], rsc |-> <<>>,
               log |-> <<>>, ret |-> Pending]

\* a location handed to SetLocation: none yet
NoLocationArg == [given |-> FALSE]

\* nobody calls SetLocation
NoLocation ==
    /\ locArg = NoLocationArg
    /\ locRet = Pending

\* the region of clients made from the configuration provider alone
NoRegion == ""

\* the scheduler was built at StartInstant and no time has passed since
Clock0 == [built |-> StartInstant, now |-> StartInstant]

\* no timezone and no action configured, the wall clock stands still
Unconfigured ==
    /\ clock = Clock0
    /\ cfgTimezone = NoOption
    /\ cfgAction = NoOption

\* a region out of pool and a controller that has not run yet, with the
\* scheduler ts
InitScheduled(ts, pool) ==
    /\ sched = ts
    /\ regionItems \in pool
    /\ evalMemo = [i \in DOMAIN regionItems |-> ScheduleOf(sched, regionItems[i])]
    /\ items = <<>>
    /\ nspawn = 0
    /\ nsent = 0
    /\ queue = <<>>
    /\ closed = FALSE
    /\ workerWg = 0
    /\ rstat = <<>>
    /\ rcalls = [i \in 1..Len(regionItems) |-> 0]
    /\ rlog = [i \in 1..Len(regionItems) |-> "none"]
    /\ ctlNil = FALSE

InitCommon ==
    /\ NoCall
    /\ NoLocation
    /\ NoCompare
    /\ NoSearch
    /\ Unconfigured
    /\ InitScheduled(Sched0, RegionPool)

\* NewResourceHandler: the token pool of the handler
InitPool(optMaxRequests) ==
    /\ maxRequests = PoolCapacity(optMaxRequests)
    /\ tokens = InitialPermits(maxRequests)
    /\ granted = 0
    /\ intervalCalls = 0

Init ==
    /\ InitCommon
    /\ InitPool(0)
    /\ tcAction \in SupportedActionsPool
    /\ wk = [w \in Workers |-> FreshWorker("unborn")]
    /\ rpc = "search"
    /\ opc = "wait"
    /\ wg = 1
    /\ cfgRegion = "r1"
    /\ subscribed = <<>>
    /\ idClientOK = TRUE
    /\ regions = << "r1" >>
    /\ ri = 2
    /\ ctlRegion = "r1"

WorkerStep(w) ==
    \/ WorkerReceive(w)
    \/ WorkerExit(w)
    \/ WorkerEvaluate(w)
    \/ WorkerCompare(w)
    \/ WorkerHandled(w)

HandlerStep(w) ==
    \/ HandleAcquire(w)
    \/ HandleAcquireTimeout(w)
    \/ HandleRoute(w)
    \/ CallReturn(w)

DbStep(w) ==
    \/ DbSearchReturn(w)
    \/ DbNodeStep(w)
    \/ DbNodeReturn(w)

RunStep ==
    \/ RunSearchOK
    \/ RunSearchFail
    \/ RunSpawn
    \/ RunAdd
    \/ RunSend
    \/ RunClose
    \/ RunReturn

Next ==
    \/ RunSearchOK
    \/ RunSearchFail
    \/ RunSpawn
    \/ RunAdd
    \/ RunSend
    \/ RunClose
    \/ RunReturn
    \/ \E w \in Workers : WorkerReceive(w)
    \/ \E w \in Workers : WorkerExit(w)
    \/ \E w \in Workers : WorkerEvaluate(w)
    \/ \E w \in Workers : WorkerCompare(w)
    \/ \E w \in Workers : WorkerHandled(w)
    \/ \E w \in Workers : HandleAcquire(w)
    \/ \E w \in Workers : HandleAcquireTimeout(w)
    \/ \E w \in Workers : HandleRoute(w)
    \/ \E w \in Workers : CallReturn(w)
    \/ Refill
    \/ OrchWait

Spec == Init /\ [][Next]_vars

\* The same run over a region with more resources than the queue and the
\* workers hold together.
QueueItems == 2 * TC_WORK_QUEUE + 1

QueueStarts == {2}

InitQueue ==
    /\ NoCall
    /\ NoLocation
    /\ NoCompare
    /\ NoSearch
    /\ Unconfigured
    /\ sched = Sched0
    /\ regionItems \in {Window(from, QueueItems) : from \in QueueStarts}
    /\ evalMemo = [i \in DOMAIN regionItems |-> ScheduleOf(sched, regionItems[i])]
    /\ items = <<>>
    /\ nspawn = 0
    /\ nsent = 0
    /\ queue = <<>>
    /\ closed = FALSE
    /\ workerWg = 0
    /\ rstat = <<>>
    /\ rcalls = [i \in 1..Len(regionItems) |-> 0]
    /\ rlog = [i \in 1..Len(regionItems) |-> "none"]
    /\ ctlNil = FALSE
    /\ InitPool(0)
    /\ tcAction = ALL
    /\ wk = [w \in Workers |-> FreshWorker("unborn")]
    /\ rpc = "search"
    /\ opc = "wait"
    /\ wg = 1
    /\ cfgRegion = "r1"
    /\ subscribed = <<>>
    /\ idClientOK = TRUE
    /\ regions = << "r1" >>
    /\ ri = 2
    /\ ctlRegion = "r1"

SpecQueue == InitQueue /\ [][Next]_vars

\* The runtime keeps scheduling: while some goroutine can take a step, a call
\* can return or the pool's ticker can fire, one of them eventually does.
Fairness == WF_vars(Next)

FairSpec == Spec /\ Fairness

(***************************************************************************)
(* The handler alone: TC_WORK_QUEUE callers share one ResourceHandler and   *)
(* hand it tasks of every kind.                                            *)
(***************************************************************************)
Task(act, kind, state) == [act |-> act, res |-> Resource(0, kind, state, NoTags)]

TaskPool ==
    {Task(OFF, "Instance", st) :
        st \in {"RUNNING", "STOPPED", "STOPPING", "TERMINATING", "TERMINATED"}}
    \cup {Task(ON, "Instance", st) :
        st \in {"STOPPED", "RUNNING", "STARTING", "TERMINATING", "TERMINATED"}}
    \cup {Task(ToAction(3), "Instance", "RUNNING")}
    \cup {Task(OFF, "AnalyticsInstance", st) :
        st \in {"RUNNING", "Inactive", "DELETING", "DELETED"}}
    \cup {Task(ON, "AnalyticsInstance", st) : st \in {"Inactive", "RUNNING", "DELETED"}}
    \cup {Task(act, "DbSystem", "AVAILABLE") : act \in {OFF, ON}}
    \cup {Task(ON, "AutonomousDatabase", "STOPPED"),
          Task(OFF, "AutonomousDatabase", "RUNNING"),
          Task(ON, "IntegrationInstance", "STOPPED"),
          Task(OFF, "IntegrationInstance", "RUNNING")}
    \cup {Task(OFF, "DbNode", "AVAILABLE"), Task(ON, "Bucket", "ACTIVE")}
    \cup {Task(OFF, NilString, "RUNNING")}

\* The first caller hands the handler any task of TaskPool; the callers
\* beside it contend for the pool's permits with these.
RivalTasks == {Task(OFF, "Instance", "RUNNING")}

TasksOf(w) == IF w = 1 THEN TaskPool ELSE RivalTasks

\* opts.MaxRequests: 0 stands for nil
MaxRequestsPool == {0, 1}

InitHandler ==
    /\ NoCompare
    /\ NoSearch
    /\ Unconfigured
    /\ \E opt \in MaxRequestsPool : InitPool(opt)
    /\ NoCall
    /\ NoLocation
    /\ sched = Sched0
    /\ tcAction = ALL
    /\ regionItems = <<>>
    /\ evalMemo = <<>>
    /\ items = <<>>
    /\ nspawn = 0
    /\ nsent = 0
    /\ queue = <<>>
    /\ closed = FALSE
    /\ workerWg = 0
    /\ rstat = <<>>
    /\ rcalls = <<>>
    /\ rlog = <<>>
    /\ ctlRegion = "r1"
    /\ wk = [w \in Workers |-> IF w <= TC_WORK_QUEUE THEN FreshWorker("recv")
                                                    ELSE FreshWorker("unborn")]
    /\ rpc = "detached"
    /\ opc = "detached"
    /\ wg = 0
    /\ cfgRegion = "r1"
    /\ subscribed = <<>>
    /\ idClientOK = TRUE
    /\ regions = << "r1" >>
    /\ ri = 1
    /\ ctlNil = FALSE

\* a caller invokes h.HandleResource(t)
HandlerCall(w) ==
    /\ wk[w].pc = "recv"
    /\ rpc = "detached"
    /\ \E t \in TasksOf(w) :
         wk' = [wk EXCEPT ![w] = [FreshWorker("handle") EXCEPT
                                     !.res = t.res, !.act = t.act]]
    /\ UNCHANGED << ctlVars, rstat, rcalls, wg >>
    /\ UNCHANGED << poolVars, orchVars, envVars >>

NextHandler ==
    \/ \E w \in Workers : HandlerCall(w)
    \/ \E w \in Workers : HandleNilKind(w)
    \/ \E w \in Workers : HandleAcquire(w)
    \/ \E w \in Workers : HandleAcquireTimeout(w)
    \/ \E w \in Workers : HandleRoute(w)
    \/ \E w \in Workers : CallReturn(w)
    \/ \E w \in Workers : DbSearchReturn(w)
    \/ \E w \in Workers : DbNodeStep(w)
    \/ \E w \in Workers : DbNodeReturn(w)
    \/ \E w \in Workers : WorkerHandled(w)
    \/ Refill

SpecHandler == InitHandler /\ [][NextHandler]_vars

(***************************************************************************)
(* The whole run: main.run resolves the regions, then builds and starts a  *)
(* controller per region.  Its ControllerOpts name no SupportedActions:    *)
(* the controller's action is the zero value.                              *)
(***************************************************************************)
RegionNamePool == {"", "r1"}

SubscribedPool == {<< >>, << "r1" >>, << "r1", "r2" >>}

\* run has not resolved its regions yet; it sets no SupportedActions in the
\* ControllerOpts, so that the controller's action is the zero value
InitRun ==
    /\ InitPool(0)
    /\ tcAction = ToAction(0)
    /\ wk = [w \in Workers |-> FreshWorker("unborn")]
    /\ rpc = "idle"
    /\ opc = "resolve"
    /\ wg = 0
    /\ cfgRegion \in RegionNamePool
    /\ subscribed \in SubscribedPool
    /\ idClientOK \in BOOLEAN
    /\ regions = << >>
    /\ ri = 1
    /\ ctlRegion = NoRegion

InitOrch ==
    /\ InitCommon
    /\ InitRun

NextOrch ==
    \/ OrchResolve
    \/ OrchConstruct
    \/ OrchSetRegion
    \/ OrchGo
    \/ OrchAdd
    \/ OrchWait
    \/ RunSearchOK
    \/ RunSearchFail
    \/ RunSpawn
    \/ RunAdd
    \/ RunSend
    \/ RunClose
    \/ RunReturn
    \/ \E w \in Workers : WorkerReceive(w)
    \/ \E w \in Workers : WorkerExit(w)
    \/ \E w \in Workers : WorkerEvaluate(w)
    \/ \E w \in Workers : WorkerCompare(w)

SpecOrch == InitOrch /\ [][NextOrch]_vars

FairSpecOrch == SpecOrch /\ WF_vars(NextOrch)

(***************************************************************************)
(* The run while the wall clock advances: the scheduler is built at the    *)
(* tenth or at the last hour of the Monday                                 *)
(***************************************************************************)
MaxTicks == 1

StartPool == {StartInstant, 23}

\* regions whose first resource changes its decision with the hour
ClockRegions == {Window(1, n) : n \in 1..MaxItems}

InitClock ==
    /\ NoCall
    /\ NoLocation
    /\ NoCompare
    /\ NoSearch
    /\ cfgTimezone = NoOption
    /\ cfgAction = NoOption
    /\ \E t \in StartPool :
          /\ clock = [built |-> t, now |-> t]
          /\ InitScheduled(ScheduleFunc(t), ClockRegions)
    /\ InitRun

\* an hour passes on the wall clock
ClockTick ==
    /\ clock.now - clock.built < MaxTicks
    /\ opc \notin {"exit1", "panic", "done"}
    /\ clock' = [clock EXCEPT !.now = @ + 1]
    /\ UNCHANGED << ctlVars, wk, rstat, rcalls, wg >>
    /\ UNCHANGED << poolVars, orchVars, sched, tcAction, regionItems, evalMemo,
                    maxRequests, cfgRegion, subscribed, idClientOK, callVars, cmpVars,
                    cfgTimezone, cfgAction, searchVars, locVars, rlog, ctlRegion >>

NextClock ==
    \/ NextOrch
    \/ ClockTick

SpecClock == InitClock /\ [][NextClock]_vars

(***************************************************************************)
(* The run under a configuration: a timezone option and an action option   *)
(***************************************************************************)
TimezonePool == {NoOption, Option("Etc/GMT-14")}

ActionOptionPool ==
    {NoOption, Option(<<"a", "l", "l">>), Option(<<"o", "n">>), Option(<<"O", "F", "F">>),
     Option(<<"s", "t", "o", "p">>)}

InitConfigured ==
    /\ NoCall
    /\ NoLocation
    /\ NoCompare
    /\ NoSearch
    /\ clock = Clock0
    /\ cfgTimezone \in TimezonePool
    /\ cfgAction \in ActionOptionPool
    /\ InitScheduled(ScheduleFunc(clock.built), RegionPool)
    /\ InitRun

SpecConfigured == InitConfigured /\ [][NextOrch]_vars

(***************************************************************************)
(* The scheduler alone: a caller constructs it at some hour of some day    *)
(* and hands it a schedule string or a tag map.                            *)
(***************************************************************************)
\* time.Now().In(loc) at other constructions: the first hour of a third
\* Monday, the last hour of a fifth Saturday
NowFirstHour == [hour |-> 0, dow |-> "Monday", dom |-> 15]

NowLastHour == [hour |-> 23, dow |-> "Saturday", dom |-> 30]

NowPool == {Now0, NowFirstHour, NowLastHour}

\* tokens a schedule may hold at an hour
TokenPool ==
    { <<>>, <<"*">>, <<"0">>, <<"1">>, <<"2">>, <<"3">>, <<"1", "2", "7">>,
      <<"1", "2", "8">>, <<"2", "0", "0">>, <<"-", "1">>, <<"-", "4">>,
      <<"+", "1">>, <<"0", "0", "7">>, <<"x">>, <<"1", "x">>, <<"1", ".", "5">>,
      <<"(", "1", ":", "2", ")">>, <<"(", ")">>, <<"(", "1">>, <<"1", ")">>,
      <<"(">>, <<" ", "1", " ">>, <<"\t", "0">> }

MixedPool ==
    { HourMixed(<<"0">>, <<"1">>, <<"5">>, <<"x">>),
      HourMixed(<<"x">>, <<"(", "1", ":", "2", ")">>, <<"*">>, <<"1">>),
      HourMixed(<<"1">>, <<"0">>, <<>>, <<"(", "a", ")">>),
      HourMixed(<<"3">>, <<>>, <<"-", "2">>, <<>>) }

Ones(n) == Join(Repeat(<<"1">>, n), <<",">>)

\* schedules of other lengths, blank ones, and inline comments
CountPool ==
    { <<>>, <<" ", " ">>, <<"#", " ", "c">>, <<" ", "#", "1", ",", "1">>,
      Ones(1), Ones(2), Ones(3), Ones(23), Ones(25), Ones(26),
      Ones(23) \o <<",">>,
      <<",">>,
      Ones(24) \o <<" ", "#", " ", "c">>,
      Ones(24) \o <<"#", ",", "1">>,
      Ones(3) \o <<" ", "#">> \o Join(Repeat(<<>>, 22), <<",">>),
      Ones(25) \o <<"#">>,
      <<" ">> \o Ones(24) \o <<"\t">> }

StringInputs ==
    {StringInput(s) : s \in {Sched24(t) : t \in TokenPool} \cup MixedPool \cup CountPool}
    \cup {[type |-> "[]byte", s |-> Sched24(<<"1">>)],
          [type |-> "fmt.Stringer", s |-> Ones(3)]}

\* the keys of the priority layers and a schedule for each, told apart by
\* its token
LayerKeys == {ANYDAY, WEEKDAY, WEEKEND, "Monday", "Monday2", DAYOFMO}

Blank == <<" ">>

LayerValue(k) ==
    CASE k = ANYDAY -> Sched24(<<"1">>)
      [] k = WEEKDAY -> Sched24(<<"0">>)
      [] k = WEEKEND -> Sched24(<<"3">>)
      [] k = "Monday" -> Sched24(<<"4">>)
      [] k = "Monday2" -> Sched24(<<"5">>)
      [] k = DAYOFMO -> <<"1", "5", ":", "8", ",", " ", "3", "0", ":", "9">>

\* every choice of absent, blank or set for each layer key
LayerMaps ==
    UNION {{[k \in S |-> IF k \in B THEN Blank ELSE LayerValue(k)] : B \in SUBSET S} :
              S \in SUBSET LayerKeys}

\* DayOfMonth values: for today, for another day, malformed, repeated
DayOfMonthPool ==
    { <<"1", "1", ":", "0">>,
      <<"1", "1", ":">>,
      <<"1", "1", ":", "0", ",", "1", "1", ":", "3">>,
      <<"1", "1", ":", ",", "1", "1", ":", "0">>,
      <<"x", ":", "3", ",", "1", "1", ":", "0">>,
      <<",", "1", "1", ":", "0">>,
      <<"1", "1">>,
      <<"1", "2", ":", "0">>,
      <<" ", "1", "1", " ", ":", " ", "0", " ">>,
      <<":", "0">>,
      <<"1", "1", ":", "1", ":", "2">>,
      <<"0", "1", "1", ":", "0">>,
      <<"1", "2", ":", "3", ",", "3", "0", ":", "*", ",", "1", "1", ":", "x">> }

DayOfMonthMaps ==
    {[k \in {ANYDAY, DAYOFMO} |-> IF k = ANYDAY THEN Sched24(<<"1">>) ELSE v] :
        v \in DayOfMonthPool}
    \cup {[k \in {DAYOFMO} |-> v] : v \in DayOfMonthPool}

\* maps with unknown keys, keys of other days, and schedules to reject
OtherMaps ==
    { EmptyMap,
      [k \in {"SomeOther"} |-> Sched24(<<"1">>)],
      [k \in {"anyday"} |-> Sched24(<<"1">>)],
      [k \in {"SomeOther", ANYDAY} |-> IF k = ANYDAY THEN Blank ELSE Sched24(<<"1">>)],
      [k \in {"Tuesday"} |-> Sched24(<<"1">>)],
      [k \in {"Monday3", "Saturday", "Saturday5"} |->
          IF k = "Saturday" THEN Sched24(<<"0">>) ELSE Sched24(<<"1">>)],
      [k \in {"Monday3", "Saturday"} |-> Sched24(<<"3">>)],
      [k \in {ANYDAY} |-> Ones(3)],
      [k \in {ANYDAY} |-> Ones(25)],
      [k \in {ANYDAY} |-> Sched24(<<"(", "1", ":", "2", ")">>)],
      [k \in {ANYDAY} |-> <<" ">> \o Sched24(<<"1">>) \o <<" ">>] }

\* map[string]interface{} values: nil entries beside the strings
NilMaps ==
    { [k \in {ANYDAY} |-> NilValue],
      [k \in {ANYDAY, "SomeOther"} |-> IF k = ANYDAY THEN NilValue ELSE Sched24(<<"1">>)],
      [k \in {ANYDAY, WEEKDAY} |-> IF k = WEEKDAY THEN NilValue ELSE Sched24(<<"1">>)] }

MapInputs ==
    {StringMapInput(m) : m \in LayerMaps \cup DayOfMonthMaps \cup OtherMaps}
    \cup {AnyMapInput(m) : m \in DayOfMonthMaps \cup OtherMaps \cup NilMaps}

InputPool == StringInputs \cup MapInputs \cup {OtherInput}

InitEval ==
    /\ NoCompare
    /\ NoSearch
    /\ Unconfigured
    /\ InitPool(0)
    /\ NoLocation
    /\ \E now \in NowPool : sched = NewAnykeyNLSchedulerWithLocation(now)
    /\ input \in InputPool
    /\ evalRet = Pending
    /\ activeRet = Pending
    /\ evalAgain = Pending
    /\ activeAgain = Pending
    /\ evalTwoStep = Pending
    /\ tcAction = ALL
    /\ regionItems = <<>>
    /\ evalMemo = <<>>
    /\ items = <<>>
    /\ nspawn = 0
    /\ nsent = 0
    /\ queue = <<>>
    /\ closed = FALSE
    /\ workerWg = 0
    /\ rstat = <<>>
    /\ rcalls = <<>>
    /\ rlog = <<>>
    /\ ctlRegion = "r1"
    /\ wk = [w \in Workers |-> FreshWorker("unborn")]
    /\ rpc = "detached"
    /\ opc = "detached"
    /\ wg = 0
    /\ cfgRegion = "r1"
    /\ subscribed = <<>>
    /\ idClientOK = TRUE
    /\ regions = << "r1" >>
    /\ ri = 1
    /\ ctlNil = FALSE

\* what a direct call of the scheduler leaves alone besides the results
callFrame == << ctlVars, wk, rstat, rcalls, wg, input, poolVars, orchVars, tcAction,
                regionItems, evalMemo, maxRequests, cfgRegion, subscribed, idClientOK,
                cmpVars, cfgVars, searchVars, locVars, rlog, ctlRegion >>

\* Evaluate with a receiver that re-reads the hour on every call
CallEvaluateRereadHour ==
    /\ input # NoInput
    /\ evalRet = Pending
    /\ evalRet' = Evaluate(sched, input)
    /\ sched' = [sched EXCEPT !.hour = (sched.hour + 1) % 24]
    /\ UNCHANGED << callFrame, activeRet, evalAgain, activeAgain, evalTwoStep >>

\* the caller invokes sch.Evaluate(input): a value receiver, nothing is assigned
CallEvaluate ==
    /\ input # NoInput
    /\ evalRet = Pending
    /\ evalRet' = Evaluate(sched, input)
    /\ UNCHANGED << callFrame, sched, activeRet, evalAgain, activeAgain, evalTwoStep >>

\* the caller invokes sch.ActiveSchedule(input)
CallActiveSchedule ==
    /\ input # NoInput
    /\ activeRet = Pending
    /\ activeRet' = ActiveSchedule(sched, input)
    /\ UNCHANGED << callFrame, sched, evalRet, evalAgain, activeAgain, evalTwoStep >>

\* another worker invokes sch.Evaluate(input) on the same scheduler later
CallEvaluateAgain ==
    /\ evalRet # Pending
    /\ evalAgain = Pending
    /\ evalAgain' = Evaluate(sched, input)
    /\ UNCHANGED << callFrame, sched, evalRet, activeRet, activeAgain, evalTwoStep >>

\* another worker invokes sch.ActiveSchedule(input) on the same scheduler later
CallActiveScheduleAgain ==
    /\ activeRet # Pending
    /\ activeAgain = Pending
    /\ activeAgain' = ActiveSchedule(sched, input)
    /\ UNCHANGED << callFrame, sched, evalRet, activeRet, evalAgain, evalTwoStep >>

\* the worker's second step: sch.Evaluate(activeSchedule) on the string its
\* ActiveSchedule call returned without an error
CallEvaluateTwoStep ==
    /\ activeRet # Pending
    /\ activeRet.err = NoErr
    /\ evalTwoStep = Pending
    /\ evalTwoStep' = Evaluate(sched, StringInput(activeRet.s))
    /\ UNCHANGED << callFrame, sched, evalRet, activeRet, evalAgain, activeAgain >>

NextEval ==
    \/ CallEvaluateTwoStep
    \/ CallEvaluate
    \/ CallActiveSchedule
    \/ CallEvaluateAgain
    \/ CallActiveScheduleAgain

SpecEval == InitEval /\ [][NextEval]_vars

(***************************************************************************)
(* The action algebra alone: a caller compares two actions, in both orders *)
(***************************************************************************)
\* every value of the uint8 type Action
ActionPool == NULL_ACTION..ALL

Returned(b) == [kind |-> "returned", ok |-> b]

InitAction ==
    /\ InitPool(0)
    /\ NoCall
    /\ NoLocation
    /\ NoSearch
    /\ Unconfigured
    /\ \E a \in ActionPool, b \in ActionPool :
          cmpArgs = [a |-> ToAction(a), b |-> ToAction(b), called |-> TRUE]
    /\ cmpRet = Pending
    /\ cmpRev = Pending
    /\ sched = Sched0
    /\ tcAction = ALL
    /\ regionItems = <<>>
    /\ evalMemo = <<>>
    /\ items = <<>>
    /\ nspawn = 0
    /\ nsent = 0
    /\ queue = <<>>
    /\ closed = FALSE
    /\ workerWg = 0
    /\ rstat = <<>>
    /\ rcalls = <<>>
    /\ rlog = <<>>
    /\ ctlRegion = "r1"
    /\ wk = [w \in Workers |-> FreshWorker("unborn")]
    /\ rpc = "detached"
    /\ opc = "detached"
    /\ wg = 0
    /\ cfgRegion = "r1"
    /\ subscribed = <<>>
    /\ idClientOK = TRUE
    /\ regions = << "r1" >>
    /\ ri = 1
    /\ ctlNil = FALSE

compareFrame == << ctlVars, wk, rstat, rcalls, wg, poolVars, orchVars, sched, tcAction,
                   regionItems, evalMemo, maxRequests, cfgRegion, subscribed, idClientOK,
                   callVars, cmpArgs, cfgVars, searchVars, locVars, rlog, ctlRegion >>

\* the caller invokes action.Compare(a, b)
CallCompare ==
    /\ cmpArgs.called
    /\ cmpRet = Pending
    /\ cmpRet' = Returned(Compare(cmpArgs.a, cmpArgs.b))
    /\ UNCHANGED << compareFrame, cmpRev >>

\* the caller invokes action.Compare(b, a)
CallCompareSwapped ==
    /\ cmpArgs.called
    /\ cmpRev = Pending
    /\ cmpRev' = Returned(Compare(cmpArgs.b, cmpArgs.a))
    /\ UNCHANGED << compareFrame, cmpRet >>

NextAction ==
    \/ CallCompare
    \/ CallCompareSwapped

SpecAction == InitAction /\ [][NextAction]_vars

(***************************************************************************)
(* TagController.Search alone: the service holds the matches in pages; a   *)
(* page names the cursor of the page after it, 0 when there is none        *)
(***************************************************************************)
SEARCH_LIMIT == 1000

MaxPages == 3

MaxPageItems == 2

Page(its, next) == [items |-> its, next |-> next]

\* the n matches page k holds, told apart by page
PageItems(k, n) == [j \in 1..n |-> 10 * k + j]

\* the services: up to MaxPages pages of up to MaxPageItems matches each; a
\* page points forward or nowhere
ServicePool ==
    UNION {{[k \in 1..n |-> Page(PageItems(k, size[k]), next[k])] :
              size \in [1..n -> 0..MaxPageItems],
              next \in {f \in [1..n -> 0..n] :
                          \A k \in 1..n : f[k] \in {0} \cup ((k + 1)..n)}}
           : n \in 1..MaxPages}

\* tc.search.SearchResources(ctx, request), the nth request of the search: an
\* error, or the page the request's cursor names (the first without cursor)
SearchResources(service, n, request) ==
    IF service.failAt = n
      THEN [err |-> TRUE, items |-> <<>>, next |-> 0]
      ELSE LET pg == service.pages[IF request.page = 0 THEN 1 ELSE request.page]
           IN  [err |-> FALSE, items |-> pg.items, next |-> pg.next]

\* A plausible slip: the error is returned with an empty collection.
SearchFailureEmpty(collected) == [items |-> <<>>, err |-> TRUE]

\* `return rsc, err`
SearchFailure(collected) == [items |-> collected, err |-> TRUE]

InitSearch ==
    /\ InitPool(0)
    /\ NoCall
    /\ NoLocation
    /\ NoCompare
    /\ Unconfigured
    /\ \E pages \in ServicePool, failAt \in 0..MaxPages :
          svc = [pages |-> pages, failAt |-> failAt]
    /\ srch = [pc |-> "request", request |-> [limit |-> SEARCH_LIMIT, page |-> 0],
               rsc |-> <<>>, log |-> <<>>, ret |-> Pending]
    /\ sched = Sched0
    /\ tcAction = ALL
    /\ regionItems = <<>>
    /\ evalMemo = <<>>
    /\ items = <<>>
    /\ nspawn = 0
    /\ nsent = 0
    /\ queue = <<>>
    /\ closed = FALSE
    /\ workerWg = 0
    /\ rstat = <<>>
    /\ rcalls = <<>>
    /\ rlog = <<>>
    /\ ctlRegion = "r1"
    /\ wk = [w \in Workers |-> FreshWorker("unborn")]
    /\ rpc = "detached"
    /\ opc = "detached"
    /\ wg = 0
    /\ cfgRegion = "r1"
    /\ subscribed = <<>>
    /\ idClientOK = TRUE
    /\ regions = << "r1" >>
    /\ ri = 1
    /\ ctlNil = FALSE

searchFrame == << ctlVars, wk, rstat, rcalls, wg, poolVars, orchVars, sched, tcAction,
                  regionItems, evalMemo, maxRequests, cfgRegion, subscribed, idClientOK,
                  callVars, cmpVars, cfgVars, svc, locVars, rlog, ctlRegion >>

\* the response to the request the loop is about to send
Response == SearchResources(svc, Len(srch.log) + 1, srch.request)

\* the request failed: `return rsc, err`
SearchPageFailed ==
    /\ srch.pc = "request"
    /\ Response.err
    /\ srch' = [srch EXCEPT !.log = Append(@, srch.request),
                            !.pc = "returned",
                            !.ret = SearchFailure(srch.rsc)]
    /\ UNCHANGED searchFrame

\* a page with a next page: its items are appended, request.Page is set
SearchPageNext ==
    /\ srch.pc = "request"
    /\ ~Response.err
    /\ Response.next # 0
    /\ srch' = [srch EXCEPT !.log = Append(@, srch.request),
                            !.rsc = @ \o Response.items,
                            !.request.page = Response.next]
    /\ UNCHANGED searchFrame

\* a page without a next page: its items are appended, `break`, `return rsc, nil`
SearchPageLast ==
    /\ srch.pc = "request"
    /\ ~Response.err
    /\ Response.next = 0
    /\ srch' = [srch EXCEPT !.log = Append(@, srch.request),
                            !.rsc = @ \o Response.items,
                            !.pc = "returned",
                            !.ret = [items |-> srch.rsc \o Response.items, err |-> FALSE]]
    /\ UNCHANGED searchFrame

NextSearch ==
    \/ SearchPageFailed
    \/ SearchPageNext
    \/ SearchPageLast

SpecSearch == InitSearch /\ [][NextSearch]_vars

(***************************************************************************)
(* SetLocation alone: a caller holds a scheduler built in some location at *)
(* some hour and asks it for one in another location, while time passes    *)
(***************************************************************************)
\* scheduler.ErrInvalidTimezone
ErrInvalidTimezone == [kind |-> "InvalidTimezone"]

\* a nil *time.Location
NilLocation == "<nil>"

LocationPool == {LocalZone, "Etc/GMT-14"}

\* the hours of two days, as instants
BuiltPool == 0..47

\* NewAnykeyNLSchedulerWithLocation(loc) at the instant t, with the loc field
\* it stores: time.Local stands in for a nil location
WithLocation(loc, t) ==
    LET l  == IF loc = NilLocation THEN LocalZone ELSE loc
        ts == NewAnykeyNLSchedulerWithLocation(TimeIn(l, t))
    IN  [loc |-> l, hour |-> ts.hour, dow |-> ts.dow, dom |-> ts.dom, dnr |-> ts.dnr]

\* A plausible slip: the receiver itself is moved to the location and returned.
SetLocationInPlace(ts, loc, t) ==
    IF loc = NilLocation
      THEN [recv |-> ts, sch |-> ts, same |-> TRUE, err |-> ErrInvalidTimezone]
      ELSE [recv |-> WithLocation(loc, t), sch |-> WithLocation(loc, t), same |-> TRUE,
            err |-> NoErr]

\* (ts *AnykeyNLScheduler).SetLocation(loc) at the instant t.  recv is the
\* receiver after the call, sch the scheduler returned, same whether the
\* pointer returned is the receiver.
SetLocation(ts, loc, t) ==
    IF loc = NilLocation
      THEN [recv |-> ts, sch |-> ts, same |-> TRUE, err |-> ErrInvalidTimezone]
      ELSE [recv |-> ts, sch |-> WithLocation(loc, t), same |-> FALSE, err |-> NoErr]

InitLocation ==
    /\ InitPool(0)
    /\ NoCall
    /\ NoCompare
    /\ NoSearch
    /\ cfgTimezone = NoOption
    /\ cfgAction = NoOption
    /\ \E l \in LocationPool, t \in BuiltPool :
          /\ clock = [built |-> t, now |-> t]
          /\ sched = WithLocation(l, t)
    /\ \E l \in LocationPool \cup {NilLocation} :
          locArg = [given |-> TRUE, loc |-> l, recv |-> sched]
    /\ locRet = Pending
    /\ tcAction = ALL
    /\ regionItems = <<>>
    /\ evalMemo = <<>>
    /\ items = <<>>
    /\ nspawn = 0
    /\ nsent = 0
    /\ queue = <<>>
    /\ closed = FALSE
    /\ workerWg = 0
    /\ rstat = <<>>
    /\ rcalls = <<>>
    /\ rlog = <<>>
    /\ ctlRegion = "r1"
    /\ wk = [w \in Workers |-> FreshWorker("unborn")]
    /\ rpc = "detached"
    /\ opc = "detached"
    /\ wg = 0
    /\ cfgRegion = "r1"
    /\ subscribed = <<>>
    /\ idClientOK = TRUE
    /\ regions = << "r1" >>
    /\ ri = 1
    /\ ctlNil = FALSE

\* the caller invokes sch.SetLocation(loc) at the instant clock.now
CallSetLocation ==
    /\ locArg # NoLocationArg
    /\ locRet = Pending
    /\ LET r == SetLocation(sched, locArg.loc, clock.now)
       IN  /\ sched' = r.recv
           /\ locRet' = [sch |-> r.sch, same |-> r.same, err |-> r.err, at |-> clock.now]
    /\ UNCHANGED << ctlVars, wk, rstat, rcalls, wg, poolVars, orchVars, tcAction,
                    regionItems, evalMemo, maxRequests, cfgRegion, subscribed, idClientOK,
                    callVars, cmpVars, cfgVars, searchVars, locArg, rlog, ctlRegion >>

NextLocation ==
    \/ CallSetLocation
    \/ ClockTick

SpecLocation == InitLocation /\ [][NextLocation]_vars

(***************************************************************************)
(* Properties of the region pipeline                                       *)
(***************************************************************************)
\* positions of a worker inside HandleResource
InHandler == {"handle", "route", "calling", "dbsearch", "dbloop", "dbcalling"}

\* the handler has been entered for the item the worker holds
Invoked(w) == wk[w].pc \in InHandler \cup {"returned"}

\* what the scheduler decides for item i: Init tabulates ScheduleOf in
\* evalMemo, which no action changes
Decision(i) == evalMemo[i].act

\* the worker is through with item i's evaluation and compatibility test
Decided(i) == rstat[i] \notin {"Discovered", "Evaluated"}

\* the allowed and the decided action share a bit
Compatible(allowed, decided) == BitAnd(allowed, decided) # 0

\* C1: the handler is never invoked with NULL_ACTION; an item whose evaluation
\* yields NULL_ACTION is dropped by the worker with no handler invocation and
\* no control-plane call.
C1_NullActionNeverHandled ==
    /\ \A w \in Workers : Invoked(w) => wk[w].act # NULL_ACTION
    /\ \A i \in DOMAIN rstat :
         (Decision(i) = NULL_ACTION /\ Decided(i))
            => (rstat[i] = "Skipped" /\ rcalls[i] = 0)

\* an item with a NULL_ACTION decision was dropped by a controller that
\* allows every action
C1_Witness ==
    \E i \in DOMAIN rstat :
        /\ tcAction = ALL
        /\ Decision(i) = NULL_ACTION
        /\ items[i].kind = "Instance"
        /\ rstat[i] = "Skipped"

\* C2: a lifecycle call is issued for an item only after a worker evaluated
\* its schedule and the decided action is compatible with the controller's
\* allowed action; an incompatible item is skipped without any call.
C2_CallOnlyWhenCompatible ==
    /\ \A w \in Workers :
         Invoked(w) => /\ wk[w].act = Decision(wk[w].idx)
                       /\ Compatible(tcAction, wk[w].act)
    /\ \A i \in DOMAIN rstat :
         /\ rcalls[i] > 0 => /\ Compatible(tcAction, Decision(i))
                             /\ rstat[i] \in {"Dispatched", "Acted", "Failed"}
         /\ (Decided(i) /\ ~Compatible(tcAction, Decision(i)))
               => (rstat[i] = "Skipped" /\ rcalls[i] = 0)

\* under a controller that allows only OFF, one item was stopped and another,
\* decided ON, was skipped
C2_Witness ==
    /\ tcAction = OFF
    /\ \E i \in DOMAIN rstat : rcalls[i] > 0 /\ rstat[i] = "Acted"
    /\ \E j \in DOMAIN rstat :
         Decision(j) = ON /\ rstat[j] = "Skipped" /\ rcalls[j] = 0

\* C9: within one region at most TC_WORK_QUEUE handler invocations are in
\* progress at any time, however many resources the search returned.
C9_BoundedHandlerInvocations ==
    Cardinality({w \in Workers : wk[w].pc \in InHandler}) <= TC_WORK_QUEUE

\* TC_WORK_QUEUE invocations are in progress while the search returned more
\* resources than there are workers
C9_Witness ==
    /\ Cardinality({w \in Workers : wk[w].pc \in InHandler}) = TC_WORK_QUEUE
    /\ Len(items) > TC_WORK_QUEUE

Settled == {"Skipped", "Acted", "NoOp", "Failed"}

AllSettled ==
    /\ Len(rstat) = Len(regionItems)
    /\ \A i \in DOMAIN rstat : rstat[i] \in Settled

\* C10: an evaluation or handler error for one resource affects only that
\* resource: once the search has returned, every resource it returned
\* eventually reaches Skipped, Acted, NoOp or Failed, whatever failed for the
\* others.
C10_ErrorIsolation == (rpc = "spawn") ~> AllSettled

\* one resource failed in the handler, and the resources after it were
\* settled all the same
C10_Witness ==
    /\ AllSettled
    /\ \E i, j \in DOMAIN rstat :
         i < j /\ rstat[i] = "Failed" /\ rstat[j] \in {"Acted", "NoOp"}

(***************************************************************************)
(* Properties of the handler                                               *)
(***************************************************************************)
\* The lifecycle states an action must leave alone: for OFF the stopped,
\* stopping, terminating and terminated variants, for ON the running,
\* starting, terminating and terminated ones.  Analytics instances report
\* Inactive for stopped and DELETING, DELETED for terminating, terminated.
StoppedVariants == {"STOPPED", "Inactive"}

StoppingVariants == {"STOPPING"}

RunningVariants == {"RUNNING"}

StartingVariants == {"STARTING"}

TerminatingVariants == {"TERMINATING", "DELETING"}

TerminatedVariants == {"TERMINATED", "DELETED"}

GuardSet(act) ==
    IF act = OFF
      THEN StoppedVariants \cup StoppingVariants \cup TerminatingVariants
             \cup TerminatedVariants
    ELSE IF act = ON
      THEN RunningVariants \cup StartingVariants \cup TerminatingVariants
             \cup TerminatedVariants
    ELSE {}

SupportedKinds ==
    {"Instance", "DbSystem", "AutonomousDatabase", "AnalyticsInstance",
     "IntegrationInstance"}

VerbOf(act) == IF act = OFF THEN "STOP" ELSE "START"

\* C3: for every kind, when the lifecycle state of the resource (of the node,
\* for a DbSystem) is in the guard set of the decided action, the handler
\* issues no lifecycle call for it and returns nil.
C3_GuardedStateIssuesNoCall ==
    \A w \in Workers :
        Invoked(w) =>
          /\ \A k \in DOMAIN wk[w].calls :
               wk[w].calls[k].verb \in {"START", "STOP"}
                  => wk[w].calls[k].state \notin GuardSet(wk[w].act)
          /\ (/\ wk[w].pc = "returned"
              /\ wk[w].res.kind # "DbSystem"
              /\ wk[w].res.state \in GuardSet(wk[w].act)) => wk[w].ret = "nil"

\* C4: for each of the five kinds, a decided ON or OFF on a resource (a node,
\* for a DbSystem) whose state is outside the guard set makes the handler
\* issue the start or the stop call of the kind.
C4_UnguardedStateIssuesCall ==
    \A w \in Workers :
        (/\ wk[w].pc = "returned"
         /\ wk[w].act \in {ON, OFF}
         /\ wk[w].res.kind \in SupportedKinds)
        => IF wk[w].res.kind = "DbSystem"
             THEN Len(LifecycleCalls(wk[w].calls)) =
                    Cardinality({k \in DOMAIN wk[w].nodes :
                                   wk[w].nodes[k] \notin GuardSet(wk[w].act)})
             ELSE wk[w].res.state \notin GuardSet(wk[w].act)
                    => /\ Len(LifecycleCalls(wk[w].calls)) = 1
                       /\ LifecycleCalls(wk[w].calls)[1].verb = VerbOf(wk[w].act)

\* C5: the control-plane calls issued through the shared handler within one
\* refill interval, the nested node search and every per-node call counted,
\* never exceed the capacity of the token pool.
C5_CallsWithinCapacity == intervalCalls <= maxRequests

\* C6: when the acquisition of a permit times out, the handler returns an
\* error for the task and issues no control-plane call for it.
C6_TimeoutIssuesNoCall ==
    \A w \in Workers :
        wk[w].acq = "timeout"
          => /\ wk[w].calls = <<>>
             /\ wk[w].pc \notin {"calling", "dbsearch", "dbcalling"}
             /\ wk[w].pc = "returned" => wk[w].ret = "error"

\* C7: the permits of the pool never exceed its capacity, and an acquire that
\* gives up at its deadline takes none: the permits left and the permits
\* handed out since the last refill always add up to the capacity.
C7_PermitsWithinCapacity ==
    /\ tokens \in 0..maxRequests
    /\ granted \in 0..maxRequests
    /\ tokens + granted = maxRequests

\* an acquire gave up on the empty pool while every permit of the interval
\* was handed out
C7_Witness ==
    /\ tokens = 0
    /\ granted = maxRequests
    /\ \E w \in Workers : wk[w].acq = "timeout"
    /\ \E w \in Workers : wk[w].acq = "token"

(***************************************************************************)
(* Properties of the whole run                                             *)
(***************************************************************************)
\* the run is over: wg.Wait() returned, or run left through os.Exit(1)
RunOver == opc \in {"done", "exit1"}

\* C8: when every search and every call returns, every worker exits, every
\* controller's Run returns and the wait of the orchestrator completes: the
\* run is never stuck short of its end.
C8_RunNeverStuck == RunOver \/ ENABLED NextOrch

\* the region set the orchestrator is to work on: the configured region
\* alone, else the regions the identity service lists
EffectiveRegions == IF cfgRegion # "" THEN << cfgRegion >> ELSE subscribed

\* controllers run has started so far (the model follows one at a time)
StartedRuns == IF rpc = "idle" THEN 0 ELSE 1

\* C11: with a region configured exactly one controller is constructed and
\* run, for that region; otherwise one controller is constructed and run for
\* each region the identity service lists as subscribed.
C11_ControllerPerEffectiveRegion ==
    opc \in {"wait", "done"}
       => /\ regions = EffectiveRegions
          /\ ri - 1 = Len(EffectiveRegions)
          /\ StartedRuns = Len(EffectiveRegions)

SearchFailed == rpc = "returned" /\ nspawn = 0

\* C13: a failure confined to one region, its controller not constructed or
\* its search failed, does not abort the run.
C13_RegionFailureDoesNotAbort ==
    (ctlNil \/ SearchFailed) => opc # "panic"

(***************************************************************************)
(* Properties of the scheduler                                             *)
(***************************************************************************)
StringTypes == {"string", "[]byte", "fmt.Stringer"}

MapTypes == {"map[string]string", "map[string]interface{}"}

IsBlank(s) == \A i \in DOMAIN s : IsSpace(s[i])

\* a schedule string without its inline comment
CommentFree(s) ==
    LET hashes == {i \in DOMAIN s : s[i] = "#"} IN
    IF hashes = {} THEN s
    ELSE SubSeq(s, 1, (CHOOSE i \in hashes : \A j \in hashes : i <= j) - 1)

\* the number of comma-separated tokens of a schedule string
TokenCount(s) == 1 + Cardinality({i \in DOMAIN CommentFree(s) : CommentFree(s)[i] = ","})

\* the token a schedule string holds for hour h
HourToken(s, h) == TrimSpace(Split(CommentFree(s), ",")[h + 1])

\* the schedule string Evaluate(input) has to decode: the input itself, or
\* the active schedule of the tag map; has is FALSE where there is none
Parsed ==
    IF input.type \in StringTypes THEN [has |-> TRUE, s |-> input.s]
    ELSE LET a == ActiveSchedule(sched, input) IN
         [has |-> a.err = NoErr /\ ~IsBlank(a.s), s |-> a.s]

Evaluated24 == evalRet # Pending /\ Parsed.has /\ TokenCount(Parsed.s) = 24

Result(act, err) == [act |-> act, err |-> err]

\* C14: for every schedule string whose number n of comma-separated tokens,
\* counted after the inline comment is stripped, is not 24, evaluate returns
\* InvalidTokenCount{expected: 24, got: n} together with NULL_ACTION.
C14_WrongCountIsRejected ==
    (evalRet # Pending /\ Parsed.has /\ TokenCount(Parsed.s) # 24)
       => evalRet = Result(NULL_ACTION,
                           [kind |-> "InvalidTokenCount", expected |-> 24,
                            got |-> TokenCount(Parsed.s)])

\* C14, amended: the same for every schedule string that is not blank once
\* its comment is stripped; a blank one gives NULL_ACTION and no error.
C14_NonBlankWrongCountIsRejected ==
    (evalRet # Pending /\ Parsed.has /\ TokenCount(Parsed.s) # 24)
       => IF IsBlank(CommentFree(Parsed.s))
            THEN evalRet = Result(NULL_ACTION, NoErr)
            ELSE evalRet = Result(NULL_ACTION,
                                  [kind |-> "InvalidTokenCount", expected |-> 24,
                                   got |-> TokenCount(Parsed.s)])

\* three tokens before a comment that holds enough commas to make 24 fields
C14_Witness ==
    /\ input.type = "string"
    /\ Len(Split(input.s, ",")) = 24
    /\ TokenCount(input.s) = 3
    /\ evalRet = Result(NULL_ACTION,
                        [kind |-> "InvalidTokenCount", expected |-> 24, got |-> 3])

\* C15: for a schedule string of exactly 24 tokens evaluate never returns
\* InvalidTokenCount, and what it returns is what it returns for the schedule
\* that holds the token of the captured hour at every hour: the tokens of
\* the other hours, valid or not, do not matter.
C15_OnlyHourTokenMatters ==
    Evaluated24 =>
       /\ evalRet.err.kind # "InvalidTokenCount"
       /\ \A h \in {0, 12, 23} :
            evalRet = parseSchedule(Sched24(HourToken(Parsed.s, sched.hour)), h)

\* at hour 23 the last token decides, among tokens that would be rejected
C15_Witness ==
    /\ sched.hour = 23
    /\ input.type = "string"
    /\ input.s = HourMixed(<<"0">>, <<"1">>, <<"5">>, <<"x">>)
    /\ evalRet = Result(5, NoErr)

\* C16: the token of the current hour decodes, with no error, as: empty or
\* "*" to NULL_ACTION, an integer v <= 0 to OFF, 1 to ON, v > 1 to the custom
\* action min(v, 127).
C16_NumericMapping ==
    Evaluated24 =>
       LET tok == HourToken(Parsed.s, sched.hour)
           v   == Atoi(tok)
       IN  /\ (tok = <<>> \/ tok = <<"*">>) => evalRet = Result(NULL_ACTION, NoErr)
           /\ (v.ok /\ v.val <= 0) => evalRet = Result(OFF, NoErr)
           /\ (v.ok /\ v.val = 1) => evalRet = Result(ON, NoErr)
           /\ (v.ok /\ v.val > 1)
                 => evalRet = Result(IF v.val < 127 THEN v.val ELSE 127, NoErr)

\* the token 200 is clamped to the custom action 127
C16_Witness ==
    /\ Evaluated24
    /\ HourToken(Parsed.s, sched.hour) = <<"2", "0", "0">>
    /\ evalRet = Result(127, NoErr)

\* C17: a token of the current hour that begins with "(" and ends with ")"
\* gives UnsupportedToken, any other token that is no integer gives
\* InvalidToken, both with NULL_ACTION; no other action ever comes with an
\* error.
C17_RejectedTokens ==
    /\ (evalRet # Pending /\ evalRet.err # NoErr) => evalRet.act = NULL_ACTION
    /\ Evaluated24 =>
         LET tok   == HourToken(Parsed.s, sched.hour)
             paren == tok # <<>> /\ tok[1] = "(" /\ tok[Len(tok)] = ")"
         IN  /\ paren => evalRet = Result(NULL_ACTION,
                                          [kind |-> "UnsupportedToken", token |-> tok])
             /\ (tok # <<>> /\ tok # <<"*">> /\ ~paren /\ ~Atoi(tok).ok)
                   => evalRet = Result(NULL_ACTION,
                                       [kind |-> "InvalidToken", token |-> tok])

\* "(1:2)" at hour 10 of a schedule whose other tokens are fine
C17_Witness ==
    /\ sched.hour = 10
    /\ input.type = "string"
    /\ input.s = HourMixed(<<"x">>, <<"(", "1", ":", "2", ")">>, <<"*">>, <<"1">>)
    /\ evalRet # Pending
    /\ evalRet.err.kind = "UnsupportedToken"
    /\ evalRet.act = NULL_ACTION

\* the tag map as the scheduler reads it
TagsRead == toStringMap(input).m

\* the tag map holds a value that is not blank for key k
HasValue(k) == k \in DOMAIN TagsRead /\ ~IsBlank(TagsRead[k])

\* the rules below DayOfMonth that apply today, in increasing priority
Ladder ==
    << "AnyDay",
       IF sched.dow \in {"Saturday", "Sunday"} THEN "Weekend" ELSE "WeekDay",
       sched.dow,
       sched.dow \o ToString(((sched.dom - 1) \div 7) + 1) >>

\* the value of the highest rule of the ladder that has one
LadderValue ==
    LET hits == {r \in 1..4 : HasValue(Ladder[r])} IN
    IF hits = {} THEN <<>>
    ELSE TagsRead[Ladder[CHOOSE r \in hits : \A q \in hits : q <= r]]

\* the pairs of the DayOfMonth value: day and token around the first colon
DayPairs ==
    IF DAYOFMO \in DOMAIN TagsRead THEN Split(TrimSpace(TagsRead[DAYOFMO]), ",")
    ELSE <<>>

PairDay(p) == Atoi(TrimSpace(SplitN2(TrimSpace(p), ":")[1]))

PairToken(p) == TrimSpace(SplitN2(TrimSpace(p), ":")[2])

\* the well-formed pairs of the DayOfMonth value that name today
TodayPairs ==
    {k \in DOMAIN DayPairs :
        /\ Len(SplitN2(TrimSpace(DayPairs[k]), ":")) = 2
        /\ PairDay(DayPairs[k]).ok
        /\ PairDay(DayPairs[k]).val = sched.dom}

FirstTodayPair == CHOOSE k \in TodayPairs : \A j \in TodayPairs : k <= j

ActiveReturned == activeRet # Pending /\ input.type \in MapTypes

WeekdayNames == WEEKDAYS \cup WEEKENDS

RecognizedKeys ==
    {ANYDAY, WEEKDAY, WEEKEND, DAYOFMO} \cup WeekdayNames
    \cup {d \o ToString(n) : d \in WeekdayNames, n \in 1..5}

\* no recognized key of the map holds a value
NoRecognizedValue ==
    \A k \in DOMAIN input.m :
        k \in RecognizedKeys => (input.m[k] = NilValue \/ IsBlank(input.m[k]))

\* the input without its unknown keys
KnownOnly == [input EXCEPT !.m = [k \in DOMAIN input.m \cap RecognizedKeys |-> input.m[k]]]

\* C19: for a tag map in which no recognized key holds a value (unknown keys
\* only, blank values, a missing namespace) Evaluate returns
\* (NULL_ACTION, nil); unknown keys never change what Evaluate returns.
C19_NoRecognizedKeyIsNoop ==
    (evalRet # Pending /\ input.type \in MapTypes) =>
       /\ NoRecognizedValue => evalRet = Result(NULL_ACTION, NoErr)
       /\ evalRet = Evaluate(sched, KnownOnly)

\* an unknown key with a full schedule beside a recognized key without value
C19_Witness ==
    /\ evalRet = Result(NULL_ACTION, NoErr)
    /\ input.type \in MapTypes
    /\ DOMAIN input.m = {ANYDAY, "SomeOther"}
    /\ input.m["SomeOther"] = Sched24(<<"1">>)
    /\ NoRecognizedValue

C22_CompareAlgebra ==
    /\ (cmpRet # Pending /\ cmpRev # Pending) => cmpRet = cmpRev
    /\ (cmpRet # Pending /\ cmpArgs.b = NULL_ACTION) => cmpRet = Returned(FALSE)
    /\ (cmpRet # Pending /\ cmpArgs.a = ALL /\ cmpArgs.b \in {ON, OFF})
          => cmpRet = Returned(TRUE)
    /\ (cmpRet # Pending /\ cmpArgs.a = ON /\ cmpArgs.b = OFF)
          => cmpRet = Returned(FALSE)

\* ALL against ON, compared in both orders
C22_Witness ==
    /\ cmpArgs = [a |-> ALL, b |-> ON, called |-> TRUE]
    /\ cmpRet = Returned(TRUE)
    /\ cmpRev = Returned(TRUE)


(***************************************************************************)
(* Properties of the run: captured time, time zone, allowed action         *)
(***************************************************************************)
\* the decision the scheduler ts takes for the item a worker holds
DecisionUnder(ts, w) == ScheduleOf(ts, wk[w].res).act

\* C23: every resource of a run is evaluated against the hour, weekday, day of
\* month and weekday occurrence captured once, when the scheduler was built,
\* also after the wall clock has crossed an hour or a day boundary.
C23_EvaluatedAgainstCapturedTime ==
    /\ sched = NewAnykeyNLScheduler(clock.built)
    /\ \A w \in Workers :
         wk[w].pc = "compare"
            => wk[w].act = DecisionUnder(NewAnykeyNLScheduler(clock.built), w)

\* the wall clock went from Monday 23h to Tuesday 0h and a worker decided
\* OFF for a resource that is ON at the new hour
C23_Witness ==
    /\ clock.now > clock.built
    /\ TimeIn(LocalZone, clock.now).dow # sched.dow
    /\ \E w \in Workers :
         /\ wk[w].pc = "compare"
         /\ wk[w].act = OFF
         /\ DecisionUnder(NewAnykeyNLScheduler(clock.now), w) = ON

\* C24: the scheduler of a run captures hour, weekday and day of month in the
\* configured time zone, and in the host's zone only when none is configured:
\* every decision is the one of a scheduler built in the configured zone.
C24_CapturedInConfiguredZone ==
    \A w \in Workers :
       wk[w].pc = "compare"
          => wk[w].act = DecisionUnder(NewAnykeyNLSchedulerWithLocation(
                                         TimeIn(ConfigTimezone(cfgTimezone), clock.built)), w)


\* C25: a controller constructed without an allowed action allows ALL: every
\* ON or OFF decision for an instance is compatible and goes to the handler.
C25_UnsetActionAllowsAll ==
    \A i \in DOMAIN rstat :
       (/\ Decided(i)
        /\ items[i].kind = "Instance"
        /\ evalMemo[i].aserr = NoErr
        /\ Decision(i) \in {ON, OFF})
          => rstat[i] # "Skipped"

\* C26: the action option filters what is dispatched: an instance's decision
\* goes to the handler exactly when it shares a bit with the action of the
\* option, which is ON for "on", OFF for "off" and ALL otherwise.
C26_ConfiguredActionFilters ==
    \A i \in DOMAIN rstat :
       (/\ Decided(i)
        /\ items[i].kind = "Instance"
        /\ evalMemo[i].aserr = NoErr)
          => (rstat[i] = "Skipped" <=> ~Compatible(ConfigAction(cfgAction), Decision(i)))


(***************************************************************************)
(* Properties of the search                                                *)
(***************************************************************************)
\* the pages a reader that follows the cursors from the first page meets
RECURSIVE ChainFrom(_, _)
ChainFrom(pages, k) ==
    IF pages[k].next = 0 THEN << k >>
    ELSE << k >> \o ChainFrom(pages, pages[k].next)

\* the items of the first m pages of a chain, in order
RECURSIVE ItemsAlong(_, _, _)
ItemsAlong(pages, chain, m) ==
    IF m = 0 THEN << >>
    ELSE ItemsAlong(pages, chain, m - 1) \o pages[chain[m]].items

\* C27: Search sends its requests one after the other, each with Limit 1000
\* and, after the first, with the cursor of the page before; it stops at the
\* first page without a cursor and returns the items of all pages in order.
\* When a request fails it returns the error with the items of the pages
\* before it and sends no further request.
C27_SearchPagesInOrder ==
    LET chain  == ChainFrom(svc.pages, 1)
        fails  == svc.failAt \in 1..Len(chain)
        nreq   == IF fails THEN svc.failAt ELSE Len(chain)
        nread  == IF fails THEN svc.failAt - 1 ELSE Len(chain)
    IN  srch.pc # "detached" =>
          /\ Len(srch.log) <= nreq
          /\ \A i \in DOMAIN srch.log :
                /\ srch.log[i].limit = 1000
                /\ srch.log[i].page = IF i = 1 THEN 0 ELSE svc.pages[chain[i - 1]].next
          /\ srch.ret # Pending =>
                /\ Len(srch.log) = nreq
                /\ srch.ret = [items |-> ItemsAlong(svc.pages, chain, nread),
                               err |-> fails]

\* the third request failed after two pages that held items
C27_Witness ==
    /\ srch.ret # Pending
    /\ srch.ret.err
    /\ Len(srch.log) = 3
    /\ Len(srch.ret.items) = 2 * MaxPageItems


(***************************************************************************)
(* Properties of the controller's run and its workers                      *)
(***************************************************************************)
\* C28: when the search of a region fails, its controller sends no resource
\* to a worker, starts no worker and issues no call, its Done reaches the
\* orchestrator, and the run of the other regions goes on.
C28_FailedSearchIsContained ==
    SearchFailed =>
       /\ nsent = 0
       /\ \A w \in Workers : wk[w].pc = "unborn"
       /\ \A i \in DOMAIN rcalls : rcalls[i] = 0
       /\ opc # "panic"


\* C29: within a worker the evaluation of an item precedes its handler call,
\* the handler call has returned before the worker receives the next item,
\* and a worker holds one item at most: it receives only while it holds
\* none, enters the handler only from its evaluation of the item it holds,
\* and lets go of an item only when the item is settled; no item is held by
\* two workers or held and queued at once.
C29_WorkerOneItemAtATime ==
    [][\A w \in Workers :
         /\ (wk'[w].idx # wk[w].idx /\ wk'[w].idx # 0)
               => (wk[w].pc = "recv" /\ wk[w].idx = 0 /\ wk'[w].pc = "eval")
         /\ (Invoked(w)' /\ ~Invoked(w))
               => /\ wk[w].pc = "compare"
                  /\ wk'[w].idx = wk[w].idx
                  /\ rstat[wk[w].idx] = "Evaluated"
                  /\ wk[w].act = Decision(wk[w].idx)
         /\ (wk[w].idx # 0 /\ wk'[w].idx # wk[w].idx)
               => (wk'[w].idx = 0 /\ rstat'[wk[w].idx] \in Settled)
         /\ wk'[w].idx # 0
               => /\ \A v \in Workers \ {w} : wk'[v].idx # wk'[w].idx
                  /\ \A k \in DOMAIN queue' : queue'[k] # wk'[w].idx
      ]_vars

\* a worker is inside the handler after as many items as there are workers
\* have been through it: some worker is at its second handler call at least
C29_Witness ==
    /\ \E w \in Workers : Invoked(w)
    /\ Cardinality({i \in DOMAIN rstat : rstat[i] \in {"Acted", "NoOp", "Failed"}})
          >= TC_WORK_QUEUE


\* resources sent into the channel whose processing has not finished
InFlight == nsent - Cardinality({i \in DOMAIN rstat : rstat[i] \in Settled})

\* workers that hold a resource
Holding == {w \in Workers : wk[w].idx # 0}

\* the producer has a resource left to send
ProducerHasMore == rpc = "send" /\ nsent < Len(items)

\* C30: the resources sent and not finished are those queued, TC_WORK_QUEUE
\* at most, and those held by workers, TC_WORK_QUEUE at most; the producer
\* with a resource left can send exactly when the queue is not full, so that
\* it blocks on a full queue and goes on once a worker has received.
C30_BoundedInFlight ==
    /\ Len(queue) <= TC_WORK_QUEUE
    /\ Cardinality(Holding) <= TC_WORK_QUEUE
    /\ InFlight = Len(queue) + Cardinality(Holding)
    /\ InFlight <= 2 * TC_WORK_QUEUE
    /\ ProducerHasMore => (ENABLED RunSend <=> Len(queue) < TC_WORK_QUEUE)

\* the queue is full, every worker holds a resource and the producer waits
\* with one more
C30_Witness ==
    /\ ProducerHasMore
    /\ Len(queue) = TC_WORK_QUEUE
    /\ Cardinality(Holding) = TC_WORK_QUEUE
    /\ InFlight = 2 * TC_WORK_QUEUE
    /\ ~ENABLED RunSend

(***************************************************************************)
(* Properties of the DbSystem handler                                      *)
(***************************************************************************)
\* the worker is inside handleDbSystem, or has just returned from it
InDbSystem(w) ==
    /\ wk[w].res.kind = "DbSystem"
    /\ wk[w].pc \in {"dbloop", "dbcalling", "returned"}

\* the nodes of the list whose state asks for a call under the task's action
Actionable(w) ==
    {i \in DOMAIN wk[w].nodes : DbNodeVerb(wk[w].act, wk[w].nodes[i]) # "NONE"}

\* the nodes the loop is through with, the one it is calling for included
Visited(w) ==
    {i \in DOMAIN wk[w].nodes :
        i < wk[w].ni \/ (i = wk[w].ni /\ wk[w].pc = "dbcalling")}

\* the nodes DbNodeAction failed for, in the order of the calls
FailedNodes(w) ==
    LET failing == SelectSeq([k \in DOMAIN wk[w].answers |-> k],
                             LAMBDA k : ~wk[w].answers[k])
    IN  [j \in DOMAIN failing |-> wk[w].tried[failing[j]]]

\* C31: handleDbSystem attempts the child nodes in the order the nested
\* search returned them; a failed node action does not keep the later nodes
\* from being attempted; it returns an error exactly when some node action
\* failed, and that error joins the error of every node that failed.
C31_NodesInOrderErrorsJoined ==
    \A w \in Workers :
        InDbSystem(w) =>
          /\ \A j, k \in DOMAIN wk[w].tried : j < k => wk[w].tried[j] < wk[w].tried[k]
          /\ {wk[w].tried[k] : k \in DOMAIN wk[w].tried} = Actionable(w) \cap Visited(w)
          /\ \A k \in DOMAIN wk[w].tried :
               wk[w].calls[k + 1] =
                 Call("DbNodeAction", VerbOf(wk[w].act), wk[w].nodes[wk[w].tried[k]])
          /\ wk[w].pc = "returned" =>
               /\ Visited(w) = DOMAIN wk[w].nodes
               /\ (wk[w].ret = "error") <=> (FailedNodes(w) # <<>>)
               /\ wk[w].joined = FailedNodes(w)

\* of two nodes to stop the first failed, the second was stopped all the
\* same, and the error returned joins the failure of the first alone
C31_Witness ==
    \E w \in Workers :
        /\ InDbSystem(w)
        /\ wk[w].pc = "returned"
        /\ wk[w].act = OFF
        /\ wk[w].nodes = << "RUNNING", "RUNNING" >>
        /\ wk[w].tried = << 1, 2 >>
        /\ wk[w].answers = << FALSE, TRUE >>
        /\ wk[w].ret = "error"
        /\ wk[w].joined = << 1 >>

\* C33: HandleResource with a nil resource kind returns an error to its
\* caller, before it acquires a permit and without any control-plane call.
C33_NilKindReturnsError ==
    \A w \in Workers :
        (wk[w].res.kind = NilString /\ wk[w].pc # "handle")
           => /\ wk[w].pc = "returned"
              /\ wk[w].ret = "error"
              /\ wk[w].acq = "none"
              /\ wk[w].calls = <<>>

\* C39: when the nested DbNode search of a DbSystem returns an error,
\* handleDbSystem issues no node action and returns nil: the caller sees the
\* DbSystem as handled without error.
C39_FailedNodeSearchIsSwallowed ==
    \A w \in Workers :
        (wk[w].res.kind = "DbSystem" /\ wk[w].found = "error")
           => /\ wk[w].nodes = <<>>
              /\ wk[w].tried = <<>>
              /\ wk[w].calls = << Call("SearchResources", "QUERY", wk[w].res.state) >>
              /\ wk[w].pc \in {"dbloop", "returned"}
              /\ wk[w].pc = "returned" => (wk[w].ret = "nil" /\ wk[w].joined = <<>>)

\* the handler returned nil for a DbSystem whose node search had failed
C39_Witness ==
    \E w \in Workers :
        /\ wk[w].res.kind = "DbSystem"
        /\ wk[w].found = "error"
        /\ wk[w].pc = "returned"
        /\ wk[w].ret = "nil"
        /\ Len(wk[w].calls) = 1

(***************************************************************************)
(* Properties of unsupported kinds                                         *)
(***************************************************************************)
\* item i came through the compatibility test with a kind that is none of
\* the supported ones
UnsupportedItem(i) ==
    /\ items[i].kind \notin SupportedKinds
    /\ Decided(i)
    /\ Compatible(tcAction, Decision(i))

\* C32: a resource whose kind is none of the supported ones causes no
\* control-plane call; it is logged at warn level and skipped, and the worker
\* that held it goes on.
C32_UnsupportedKindIsWarned ==
    /\ \A i \in DOMAIN rstat :
         UnsupportedItem(i) => /\ rstat[i] = "Skipped"
                               /\ rcalls[i] = 0
                               /\ rlog[i] = "WARN"
    /\ \A w \in Workers : wk[w].pc = "exited" => (closed /\ queue = <<>>)

(***************************************************************************)
(* Properties of SetLocation                                               *)
(***************************************************************************)
\* C34: SetLocation with a valid location returns a new scheduler, built in
\* that location at the time of the call, and leaves the location and the
\* captured hour and day of the receiver as they were; with a nil location it
\* returns ErrInvalidTimezone together with the receiver, unchanged.
C34_SetLocationLeavesReceiver ==
    locRet # Pending =>
      /\ sched = locArg.recv
      /\ IF locArg.loc = NilLocation
           THEN /\ locRet.err = ErrInvalidTimezone
                /\ locRet.same
                /\ locRet.sch = locArg.recv
           ELSE /\ locRet.err = NoErr
                /\ ~locRet.same
                /\ locRet.sch.loc = locArg.loc
                /\ locRet.sch.hour = (locRet.at + ZoneOffset(locArg.loc)) % 24
                /\ locRet.sch.dom = 11 + ((locRet.at + ZoneOffset(locArg.loc)) \div 24)

\* a scheduler built in the local zone was asked for one fourteen hours
\* ahead, an hour after it was built: the one returned is on another day,
\* the receiver still holds the hour and the day it was built at
C34_Witness ==
    /\ locRet # Pending
    /\ locArg.loc = "Etc/GMT-14"
    /\ locArg.recv.loc = LocalZone
    /\ locRet.at = clock.built + 1
    /\ locRet.err = NoErr
    /\ locRet.sch.dom # sched.dom
    /\ sched.hour = clock.built % 24
    /\ sched.loc = LocalZone

(***************************************************************************)
(* Properties of the clients' region, the queue and the WaitGroups         *)
(***************************************************************************)
\* the region of the controller run has started, while the process lives:
\* the one of the loop's turn until wg.Add(1) has moved the loop on
RunRegion == regions[IF opc = "add" THEN ri ELSE ri - 1]

\* a search or a handler call of the controller is under way
ClientsInUse ==
    \/ rpc = "search"
    \/ \E w \in Workers : wk[w].pc \in InHandler

\* C35: the clients of a region's controller are bound to its region before
\* the controller's first search or handler call, and they are never rebound
\* while a search or a handler call that uses them is under way.
C35_RebindBeforeUse ==
    [][/\ (rpc' # "idle" /\ opc' # "panic") => ctlRegion' = RunRegion'
       /\ ctlRegion' # ctlRegion => (~ClientsInUse /\ ~ClientsInUse' /\ rpc = "idle")]_vars

\* the controller of r1 has its search behind it, on clients bound to r1,
\* while run has not yet counted it
C35_Witness ==
    /\ regions = << "r1" >>
    /\ ctlRegion = "r1"
    /\ opc = "add"
    /\ rpc = "send"
    /\ Len(items) > 0

\* where item i is: how often in the queue, with how many workers, and
\* whether it is settled
TimesQueued(i) == Cardinality({k \in DOMAIN queue : queue[k] = i})

Holders(i) == Cardinality({w \in Workers : wk[w].idx = i})

TimesSettled(i) == IF rstat[i] \in Settled THEN 1 ELSE 0

\* every item sent is in exactly one place, every item not yet sent in none
AccountedFor ==
    \A i \in DOMAIN rstat :
        IF i <= nsent
          THEN TimesQueued(i) + Holders(i) + TimesSettled(i) = 1
          ELSE TimesQueued(i) + Holders(i) + TimesSettled(i) = 0

\* C36: every resource the search returned is received by exactly one worker
\* exactly once: it is never lost and never processed twice, so that the
\* handler is invoked at most once for it, and the queue is closed only
\* after the last one was sent.
C36_EachItemReceivedOnce ==
    [][/\ AccountedFor'
       /\ \A i \in DOMAIN rstat : rstat[i] \in Settled => rstat'[i] = rstat[i]
       /\ \A i \in DOMAIN rstat :
            (rstat[i] # "Dispatched" /\ rstat'[i] = "Dispatched") => rstat[i] = "Evaluated"
       /\ \A i \in DOMAIN rcalls : rcalls'[i] <= 1
       /\ closed' => nsent' = Len(items')
       /\ (rpc' = "returned" /\ Len(items') > 0) =>
             \A i \in DOMAIN rstat' : rstat'[i] \in Settled]_vars

\* Run has returned after a search of MaxItems resources: each of them was
\* settled, one of them by a handler call that stopped it
C36_Witness ==
    /\ rpc = "returned"
    /\ Len(items) = MaxItems
    /\ nsent = MaxItems
    /\ closed
    /\ \A i \in DOMAIN rstat : rstat[i] \in Settled
    /\ \E i \in DOMAIN rstat : rstat[i] = "Acted" /\ rcalls[i] = 1

\* Done ran on a counter that was zero
NegativeCounter == opc = "panic" /\ rpc = "returned"

\* C37: although Add(1) follows the go statement, for the controllers in run
\* and for the workers in Run, no WaitGroup counter ever becomes negative and
\* no Wait returns before the goroutines it covers have finished.
C37_WaitGroupsAreSafe ==
    /\ ~NegativeCounter
    /\ wg >= 0
    /\ workerWg >= 0
    /\ opc = "done" => rpc \in {"idle", "returned"}
    /\ (rpc = "returned" /\ nspawn > 0) => \A w \in 1..nspawn : wk[w].pc = "exited"

(***************************************************************************)
(* Properties of the decision behind a call                                *)
(***************************************************************************)
\* the token the active schedule of a resource holds at the captured hour
ItemToken(res) == HourToken(ActiveSchedule(sched, res.tags).s, sched.hour)

\* C38: the handler issues a start call for a resource only if the schedule
\* token at the current hour is the integer 1, and a stop call only if it is
\* an integer of 0 or less; a token above 1, decoded as a custom action,
\* never leads to a start or a stop call.
C38_CallsOnlyFromOneAndZero ==
    \A w \in Workers :
        \A k \in DOMAIN wk[w].calls :
            /\ wk[w].calls[k].verb = "START" =>
                 (Atoi(ItemToken(wk[w].res)).ok /\ Atoi(ItemToken(wk[w].res)).val = 1)
            /\ wk[w].calls[k].verb = "STOP" =>
                 (Atoi(ItemToken(wk[w].res)).ok /\ Atoi(ItemToken(wk[w].res)).val <= 0)

(***************************************************************************)
(* Properties of the two ways to a decision                                *)
(***************************************************************************)
\* C40: for every tag map, Evaluate of the map returns the action and the
\* error that Evaluate returns for the string ActiveSchedule resolved from
\* the map, the empty string included: the two steps of the worker decide
\* what the direct evaluation decides.
C40_TwoStepEqualsDirect ==
    (input.type \in MapTypes /\ evalRet # Pending /\ evalTwoStep # Pending)
       => evalTwoStep = evalRet

\* both ways returned NULL_ACTION and no error for a map with tags of which
\* none is a recognized key: the string between the two steps is empty
C40_Witness ==
    /\ input.type \in MapTypes
    /\ input.m # EmptyMap
    /\ activeRet # Pending
    /\ activeRet.s = <<>>
    /\ evalRet = Result(NULL_ACTION, NoErr)
    /\ evalTwoStep = evalRet

=============================================================================
